---------------------------- MODULE Spec2Model ----------------------------
(***************************************************************************)
(* Story graph engine of CYOA-Creator: the node/choice graph held in the   *)
(* App component's state, the host operations that mutate it (App.tsx,     *)
(* GameScreen.tsx) and the graph algorithms of utils/storyUtils.ts.        *)
(*                                                                         *)
(* Node ids are opaque strings in the program.  Here an id is a number     *)
(* that stands for the id's rank in the lexicographic order of the id      *)
(* strings, so that Array.prototype.sort() on ids is a sort by <.  The     *)
(* order of the keys of the nodes object (Object.keys, for..in) is kept    *)
(* separately, in story.keys.  NULL stands for a null nextNodeId.          *)
(***************************************************************************)
EXTENDS Integers, Sequences, FiniteSets

VARIABLES
    gamePhase,      \* App state gamePhase
    story,          \* App state story (NoStory for null)
    currentNodeId,  \* App state currentNodeId (NULL for null)
    pathScores,     \* App state pathScores
    loading,        \* App state loading, as the boolean handed to GameScreen
    modalConfig,    \* App state modalConfig (NoModal for null)
    request,        \* the outstanding producer call and what its closure captured
    edits,          \* how many editing handlers have been called (bounds the model)
    hung,           \* a handler entered a loop that never exits
    pages,          \* ExportScreen state pages (empty while the screen is not mounted)
    exportScreen,   \* which of the two ExportScreen sources is built
    call            \* the function or handler applied last, with its result or the
                    \* state it was called in

vars == <<gamePhase, story, currentNodeId, pathScores, loading, modalConfig,
          request, edits, hung, pages, exportScreen, call>>

---------------------------------------------------------------------------
(* Bounds of the model *)

MaxNodes == 3
MaxChoices == 2
MaxEdges == 3
MaxEdits == 2
MaxLoop == 8
MaxThreshold == 2

NULL == 0
NodeIds == 1..MaxNodes
Predictions == {"good", "bad", "mixed", "none"}
ZeroScores == [good |-> 0, bad |-> 0, mixed |-> 0]

---------------------------------------------------------------------------
(* Helpers: JavaScript Map, Set and Array operations *)

Range(s) == {s[i] : i \in DOMAIN s}

EmptyMap == [x \in {} |-> NULL]

MapSet(m, k, v) == [x \in (DOMAIN m) \cup {k} |-> IF x = k THEN v ELSE m[x]]

MapHas(m, k) == k \in DOMAIN m

RECURSIVE InsertSorted(_, _)
InsertSorted(s, x) ==
    IF s = <<>> THEN <<x>>
    ELSE IF x < Head(s) THEN <<x>> \o s
    ELSE <<Head(s)>> \o InsertSorted(Tail(s), x)

RECURSIVE SortIds(_)
SortIds(s) ==
    IF s = <<>> THEN <<>> ELSE InsertSorted(SortIds(Tail(s)), Head(s))

---------------------------------------------------------------------------
(* utils/storyUtils.ts: generatePageMap *)

\* mutant: the loop without the !visited.has(choice.nextNodeId) test
RECURSIVE pageMapChoices_NoVisited(_, _, _, _)
pageMapChoices_NoVisited(nodes, choices, queue, visited) ==
    IF choices = <<>> THEN [queue |-> queue, visited |-> visited]
    ELSE LET choice == Head(choices)
         IN IF /\ choice.nextNodeId # NULL
               /\ choice.nextNodeId \in DOMAIN nodes
            THEN pageMapChoices_NoVisited(nodes, Tail(choices),
                                          Append(queue, choice.nextNodeId),
                                          visited \cup {choice.nextNodeId})
            ELSE pageMapChoices_NoVisited(nodes, Tail(choices), queue, visited)

\* the for loop over node.choices inside the while loop
\* mutant: the target put at the head of the queue, unshift in place of push
RECURSIVE pageMapChoices_Unshift(_, _, _, _)
pageMapChoices_Unshift(nodes, choices, queue, visited) ==
    IF choices = <<>> THEN [queue |-> queue, visited |-> visited]
    ELSE LET choice == Head(choices)
         IN IF /\ choice.nextNodeId # NULL
               /\ choice.nextNodeId \notin visited
               /\ choice.nextNodeId \in DOMAIN nodes
            THEN pageMapChoices_Unshift(nodes, Tail(choices),
                                <<choice.nextNodeId>> \o queue,
                                visited \cup {choice.nextNodeId})
            ELSE pageMapChoices_Unshift(nodes, Tail(choices), queue, visited)

RECURSIVE pageMapChoices(_, _, _, _)
pageMapChoices(nodes, choices, queue, visited) ==
    IF choices = <<>> THEN [queue |-> queue, visited |-> visited]
    ELSE LET choice == Head(choices)
         IN IF /\ choice.nextNodeId # NULL
               /\ choice.nextNodeId \notin visited
               /\ choice.nextNodeId \in DOMAIN nodes
            THEN pageMapChoices(nodes, Tail(choices),
                                Append(queue, choice.nextNodeId),
                                visited \cup {choice.nextNodeId})
            ELSE pageMapChoices(nodes, Tail(choices), queue, visited)

\* the while (queue.length > 0) loop; fuel counts the iterations still allowed
RECURSIVE pageMapLoop(_, _, _, _, _, _)
pageMapLoop(nodes, queue, visited, pageMap, pageCounter, fuel) ==
    IF queue = <<>>
    THEN [pageMap |-> pageMap, pageCounter |-> pageCounter, terminated |-> TRUE]
    ELSE IF fuel = 0
    THEN [pageMap |-> pageMap, pageCounter |-> pageCounter, terminated |-> FALSE]
    ELSE LET nodeId == Head(queue)
             pm == MapSet(pageMap, nodeId, pageCounter)
             r == IF nodeId \in DOMAIN nodes
                  THEN pageMapChoices(nodes, nodes[nodeId].choices, Tail(queue), visited)
                  ELSE [queue |-> Tail(queue), visited |-> visited]
         IN pageMapLoop(nodes, r.queue, r.visited, pm, pageCounter + 1, fuel - 1)

\* mutant: the orphans in the order of Object.keys, without .sort()
sortedOrphanIds_Unsorted(keys, pageMap) ==
    LET NotMapped(nodeId) == ~MapHas(pageMap, nodeId)
    IN SelectSeq(keys, NotMapped)

\* Object.keys(nodes).filter(nodeId => !pageMap.has(nodeId)).sort()
sortedOrphanIds(keys, pageMap) ==
    LET NotMapped(nodeId) == ~MapHas(pageMap, nodeId)
    IN SortIds(SelectSeq(keys, NotMapped))

\* sortedOrphanIds.forEach(nodeId => pageMap.set(nodeId, pageCounter++))
RECURSIVE pageMapOrphans(_, _, _)
pageMapOrphans(orphans, pageMap, pageCounter) ==
    IF orphans = <<>> THEN pageMap
    ELSE pageMapOrphans(Tail(orphans),
                        MapSet(pageMap, Head(orphans), pageCounter),
                        pageCounter + 1)

\* result: the Map, and whether the while loop came to its end
generatePageMap(nodes, keys, startNodeId) ==
    IF startNodeId \notin DOMAIN nodes
    THEN [pageMap |-> EmptyMap, terminated |-> TRUE]
    ELSE LET r == pageMapLoop(nodes, <<startNodeId>>, {startNodeId}, EmptyMap, 1, MaxLoop)
         IN [pageMap |-> IF r.terminated
                         THEN pageMapOrphans(sortedOrphanIds(keys, r.pageMap),
                                             r.pageMap, r.pageCounter)
                         ELSE r.pageMap,
             terminated |-> r.terminated]

---------------------------------------------------------------------------
(* utils/storyUtils.ts: getParentMap *)

\* mutant: an entry once set is kept
RECURSIVE parentMapChoices_FirstWins(_, _, _)
parentMapChoices_FirstWins(choices, nodeId, parentMap) ==
    IF choices = <<>> THEN parentMap
    ELSE parentMapChoices_FirstWins(Tail(choices), nodeId,
                          IF Head(choices).nextNodeId # NULL /\ ~MapHas(parentMap, Head(choices).nextNodeId)
                          THEN MapSet(parentMap, Head(choices).nextNodeId, nodeId)
                          ELSE parentMap)

RECURSIVE parentMapChoices(_, _, _)
parentMapChoices(choices, nodeId, parentMap) ==
    IF choices = <<>> THEN parentMap
    ELSE parentMapChoices(Tail(choices), nodeId,
                          IF Head(choices).nextNodeId # NULL
                          THEN MapSet(parentMap, Head(choices).nextNodeId, nodeId)
                          ELSE parentMap)

RECURSIVE parentMapKeys(_, _, _)
parentMapKeys(nodes, keys, parentMap) ==
    IF keys = <<>> THEN parentMap
    ELSE parentMapKeys(nodes, Tail(keys),
                       parentMapChoices(nodes[Head(keys)].choices, Head(keys), parentMap))

getParentMap(s) == parentMapKeys(s.nodes, s.keys, EmptyMap)

---------------------------------------------------------------------------
(* utils/storyUtils.ts: calculatePathScores *)

\* while (currentId) { path.unshift(currentId); if start: break; currentId = parentMap.get(currentId) }
RECURSIVE walkBack(_, _, _, _, _)
walkBack(startNodeId, parentMap, currentId, path, fuel) ==
    IF currentId = NULL THEN [path |-> path, terminated |-> TRUE]
    ELSE IF fuel = 0 THEN [path |-> path, terminated |-> FALSE]
    ELSE LET p == <<currentId>> \o path
         IN IF currentId = startNodeId THEN [path |-> p, terminated |-> TRUE]
            ELSE walkBack(startNodeId, parentMap,
                          IF MapHas(parentMap, currentId) THEN parentMap[currentId] ELSE NULL,
                          p, fuel - 1)

\* parentNode.choices.find(c => c.nextNodeId === childId): index of the first match, 0 if none
RECURSIVE findChoice(_, _, _)
findChoice(choices, childId, i) ==
    IF i > Len(choices) THEN 0
    ELSE IF choices[i].nextNodeId = childId THEN i
    ELSE findChoice(choices, childId, i + 1)

\* for (let i = 0; i < path.length - 1; i++) { ... scores[chosenChoice.prediction]++ }
RECURSIVE sumPath(_, _, _, _)
sumPath(nodes, path, i, scores) ==
    IF i > Len(path) - 1 THEN scores
    ELSE LET parentId == path[i]
             childId == path[i + 1]
             k == IF parentId \in DOMAIN nodes
                  THEN findChoice(nodes[parentId].choices, childId, 1) ELSE 0
             prediction == IF k = 0 THEN "none" ELSE nodes[parentId].choices[k].prediction
         IN sumPath(nodes, path, i + 1,
                    IF prediction # "none"
                    THEN [scores EXCEPT ![prediction] = @ + 1]
                    ELSE scores)

\* mutant: without the test path[0] !== story.startNodeId
calculatePathScores_NoStartTest(s, targetNodeId, parentMap) ==
    LET w == walkBack(s.startNodeId, parentMap, targetNodeId, <<>>, MaxLoop)
    IN IF ~w.terminated THEN [scores |-> ZeroScores, path |-> w.path, terminated |-> FALSE]
       ELSE [scores |-> sumPath(s.nodes, w.path, 1, ZeroScores),
             path |-> w.path, terminated |-> TRUE]

\* result: the scores, and whether the backward walk came to its end
calculatePathScores(s, targetNodeId, parentMap) ==
    LET w == walkBack(s.startNodeId, parentMap, targetNodeId, <<>>, MaxLoop)
    IN IF ~w.terminated THEN [scores |-> ZeroScores, path |-> w.path, terminated |-> FALSE]
       ELSE IF w.path = <<>> \/ w.path[1] # s.startNodeId
       THEN [scores |-> ZeroScores, path |-> w.path, terminated |-> TRUE]
       ELSE [scores |-> sumPath(s.nodes, w.path, 1, ZeroScores),
             path |-> w.path, terminated |-> TRUE]

---------------------------------------------------------------------------
(* The stories the algorithms are applied to: every graph within the       *)
(* bounds, with cycles, convergent edges, orphans and dangling targets.    *)

\* Story.endingConditions of the stories whose thresholds are not drawn: two
\* good, one bad or two mixed choices end the story
EndingConditions == [good |-> 2, bad |-> 1, mixed |-> 2]

NoStory ==
    [nodes |-> EmptyMap, keys |-> <<>>, startNodeId |-> NULL, endNodeIds |-> <<>>,
     endingConditions |-> EndingConditions]
NoModal == [type |-> "none", nodeId |-> NULL]
NoRequest == [kind |-> "none"]
NoCall == [fn |-> "none"]

Perms(S) == {p \in [1..Cardinality(S) -> S] : \A i, j \in DOMAIN p : i # j => p[i] # p[j]}

\* a choice of an imported node, from its target and prediction
GraphChoice(i, target, prediction) ==
    [id |-> i, text |-> 0, nextNodeId |-> target, isChosen |-> target # NULL,
     prediction |-> prediction]

GraphNode(nodeId, choices) ==
    [id |-> nodeId, dialogue |-> nodeId, illustrationUrl |-> nodeId, choices |-> choices]

RECURSIVE SumOver(_, _)
SumOver(f, S) ==
    IF S = {} THEN 0
    ELSE LET x == CHOOSE y \in S : TRUE IN f[x] + SumOver(f, S \ {x})

\* the choice slots <<node, position>> of a graph whose node n has lens[n] choices
Slots(lens) == {sl \in (DOMAIN lens) \X (1..MaxChoices) : sl[2] <= lens[sl[1]]}

\* how many choices each node has: at most MaxChoices each, MaxEdges in all
Shapes(present) ==
    {lens \in [present -> 0..MaxChoices] : SumOver(lens, present) <= MaxEdges}

GraphStory(keys, start, lens, targets, predictions) ==
    [nodes |-> [n \in DOMAIN lens |->
                  GraphNode(n, [i \in 1..lens[n] |->
                                  GraphChoice(i, targets[<<n, i>>], predictions[<<n, i>>])])],
     keys |-> keys, startNodeId |-> start, endNodeIds |-> <<>>,
     endingConditions |-> EndingConditions]

---------------------------------------------------------------------------
(* Applications of the storyUtils functions to a story *)

ApplyGeneratePageMap ==
    /\ call' = [fn |-> "generatePageMap",
                result |-> generatePageMap(story.nodes, story.keys, story.startNodeId)]
    /\ UNCHANGED <<gamePhase, story, currentNodeId, pathScores, loading, modalConfig,
                   request, edits, hung, pages, exportScreen>>

ApplyGetParentMap ==
    /\ call' = [fn |-> "getParentMap", result |-> getParentMap(story)]
    /\ UNCHANGED <<gamePhase, story, currentNodeId, pathScores, loading, modalConfig,
                   request, edits, hung, pages, exportScreen>>

ApplyCalculatePathScores(targetNodeId) ==
    /\ call' = [fn |-> "calculatePathScores", targetNodeId |-> targetNodeId,
                result |-> calculatePathScores(story, targetNodeId, getParentMap(story))]
    /\ UNCHANGED <<gamePhase, story, currentNodeId, pathScores, loading, modalConfig,
                   request, edits, hung, pages, exportScreen>>

InitRest ==
    /\ gamePhase = "play"
    /\ currentNodeId = story.startNodeId
    /\ pathScores = ZeroScores
    /\ loading = FALSE
    /\ modalConfig = NoModal
    /\ request = NoRequest
    /\ edits = 0
    /\ hung = FALSE
    /\ pages = <<>>
    /\ exportScreen = "ExportScreen"
    /\ call = NoCall

\* generatePageMap reads no prediction: every graph, its choices tagged none
InitPages ==
    /\ \E present \in (SUBSET NodeIds) \ {{}} :
         \E keys \in Perms(present), start \in present, lens \in Shapes(present) :
           \E targets \in [Slots(lens) -> 0..MaxNodes] :
             story = GraphStory(keys, start, lens, targets, [sl \in Slots(lens) |-> "none"])
    /\ InitRest

\* getParentMap and calculatePathScores compare ids for equality only: the keys
\* are taken in ascending order of id, and every prediction is drawn
InitScores ==
    /\ \E present \in (SUBSET NodeIds) \ {{}} :
         \E keys \in {SortIds(k) : k \in Perms(present)}, start \in present,
            lens \in Shapes(present) :
           \E targets \in [Slots(lens) -> 0..MaxNodes],
              predictions \in [Slots(lens) -> Predictions] :
             story = GraphStory(keys, start, lens, targets, predictions)
    /\ InitRest

NextPages == ApplyGeneratePageMap

SpecPages == InitPages /\ [][NextPages]_vars

NextScores ==
    \/ ApplyGetParentMap
    \/ \E targetNodeId \in DOMAIN story.nodes : ApplyCalculatePathScores(targetNodeId)

SpecScores == InitScores /\ [][NextScores]_vars

---------------------------------------------------------------------------
(* services/geminiService.ts: what the content producer returns *)

\* mutant: only the good count is compared with its threshold
endingType_GoodOnly(scores, endingConditions) ==
    IF scores.good >= endingConditions.good THEN "good" ELSE "none"

\* generateStoryNode: the ending the request asks for, "none" for null, in
\* which case the request asks for a scene with new choices
endingType(scores, endingConditions) ==
    IF scores.good >= endingConditions.good THEN "good"
    ELSE IF scores.bad >= endingConditions.bad THEN "bad"
    ELSE IF scores.mixed >= endingConditions.mixed THEN "mixed"
    ELSE "none"

\* a choice as generateStoryNode and regenerateChoices wrap it
ProducedChoice(i, prediction) ==
    [id |-> i, text |-> 0, nextNodeId |-> NULL, isChosen |-> FALSE, prediction |-> prediction]

\* the predictions of the choices of one answer: no choice, one choice tagged
\* good, one tagged mixed, or MaxChoices choices tagged bad, none, good, mixed in turn
PredictionCycle == <<"bad", "none", "good", "mixed">>

ProducedPredictions ==
    {<<>>, <<"good">>, <<"mixed">>,
     [i \in 1..MaxChoices |-> PredictionCycle[((i - 1) % 4) + 1]]}

ProducedChoiceSeqs ==
    {[i \in DOMAIN f |-> ProducedChoice(i, f[i])] : f \in ProducedPredictions}

\* Omit<StoryNode, 'id'>: a dialogue and fresh, unresolved choices
ProducedNodes == {[dialogue |-> 0, choices |-> cs] : cs \in ProducedChoiceSeqs}

---------------------------------------------------------------------------
(* components/SetupScreen.tsx: the stories handed to handleStartGame *)

\* handleStart: a single start node made of the producer's first node
FreshStories ==
    {[nodes |-> [n \in {startNodeId} |->
                   [id |-> startNodeId, dialogue |-> nd.dialogue, illustrationUrl |-> 0,
                    choices |-> nd.choices]],
      keys |-> <<startNodeId>>, startNodeId |-> startNodeId, endNodeIds |-> <<>>,
      endingConditions |-> EndingConditions]
       : startNodeId \in {1}, nd \in ProducedNodes}

ImportedChoice(i, target, isChosen, prediction) ==
    [id |-> i, text |-> 0, nextNodeId |-> target, isChosen |-> isChosen,
     prediction |-> prediction]

\* handleImportStory: the example of the specification, R with C1 unresolved and
\* C2 -> N2, N2 with C3 -> R
ImportedExample ==
    [nodes |-> [n \in {1, 2} |->
                  IF n = 1
                  THEN [id |-> 1, dialogue |-> 0, illustrationUrl |-> 1,
                        choices |-> <<ImportedChoice(1, NULL, FALSE, "bad"),
                                      ImportedChoice(2, 2, TRUE, "good")>>]
                  ELSE [id |-> 2, dialogue |-> 1, illustrationUrl |-> 0,
                        choices |-> <<ImportedChoice(1, 1, TRUE, "mixed")>>]],
     keys |-> <<1, 2>>, startNodeId |-> 1, endNodeIds |-> <<>>,
     endingConditions |-> EndingConditions]

\* handleImportStory: a cycle below the start node, R -> A, A -> B, B -> A
ImportedCycle ==
    [nodes |-> [n \in {1, 2, 3} |->
                  [id |-> n, dialogue |-> 0, illustrationUrl |-> 0,
                   choices |-> <<ImportedChoice(1, IF n = 3 THEN 2 ELSE n + 1, TRUE, "good")>>]],
     keys |-> <<1, 2, 3>>, startNodeId |-> 1, endNodeIds |-> <<>>,
     endingConditions |-> EndingConditions]

\* handleImportStory: convergent edges, R -> A, R -> B, A -> B, and B an ending
ImportedConvergent ==
    [nodes |-> [n \in {1, 2, 3} |->
                  [id |-> n, dialogue |-> 0, illustrationUrl |-> 0,
                   choices |-> CASE n = 3 -> <<ImportedChoice(1, 2, TRUE, "good"),
                                               ImportedChoice(2, 1, TRUE, "bad")>>
                                 [] n = 2 -> <<ImportedChoice(1, 1, TRUE, "mixed")>>
                                 [] OTHER -> <<>>]],
     keys |-> <<3, 1, 2>>, startNodeId |-> 3, endNodeIds |-> <<1>>,
     endingConditions |-> EndingConditions]

ImportedStories == {ImportedExample, ImportedCycle, ImportedConvergent}

---------------------------------------------------------------------------
(* App.tsx: the state updates of the handlers, as functions of prevStory *)

Includes(s, x) == x \in Range(s)

\* indexOf + splice(index, 1): s without the first occurrence of x
RECURSIVE SpliceFirst(_, _)
SpliceFirst(s, x) ==
    IF s = <<>> THEN <<>>
    ELSE IF Head(s) = x THEN Tail(s)
    ELSE <<Head(s)>> \o SpliceFirst(Tail(s), x)

\* updatedNodes[key] = value: a new key goes to the end of the keys
SetNode(s, nodeId, node) ==
    [s EXCEPT !.nodes = MapSet(s.nodes, nodeId, node),
              !.keys = IF nodeId \in DOMAIN s.nodes THEN s.keys ELSE Append(s.keys, nodeId)]

\* mutant: every choice of the node is resolved, not only the one taken
foldIn_AllChoices(prevStory, newId, newNode, fromNodeId, choiceId) ==
    LET added == SetNode(prevStory, newId,
                         [id |-> newId, dialogue |-> newNode.dialogue,
                          illustrationUrl |-> 0, choices |-> newNode.choices])
        Resolve(c) == [c EXCEPT !.isChosen = TRUE, !.nextNodeId = newId]
        fromNode == [added.nodes[fromNodeId] EXCEPT !.choices = [j \in DOMAIN @ |-> Resolve(@[j])]]
        updated == SetNode(added, fromNodeId, fromNode)
    IN [updated EXCEPT !.endNodeIds =
           IF newNode.choices = <<>> /\ ~Includes(@, newId) THEN Append(@, newId) ELSE @]

\* mutant: the choice is marked as chosen but not pointed at the new node
foldIn_Unlinked(prevStory, newId, newNode, fromNodeId, choiceId) ==
    LET added == SetNode(prevStory, newId,
                         [id |-> newId, dialogue |-> newNode.dialogue,
                          illustrationUrl |-> 0, choices |-> newNode.choices])
        Resolve(c) == IF c.id = choiceId THEN [c EXCEPT !.isChosen = TRUE] ELSE c
        fromNode == [added.nodes[fromNodeId] EXCEPT !.choices = [j \in DOMAIN @ |-> Resolve(@[j])]]
        updated == SetNode(added, fromNodeId, fromNode)
    IN [updated EXCEPT !.endNodeIds =
           IF newNode.choices = <<>> /\ ~Includes(@, newId) THEN Append(@, newId) ELSE @]

\* handleNavigate, the setStory updater
foldIn(prevStory, newId, newNode, fromNodeId, choiceId) ==
    LET added == SetNode(prevStory, newId,
                         [id |-> newId, dialogue |-> newNode.dialogue,
                          illustrationUrl |-> 0, choices |-> newNode.choices])
        Resolve(c) == IF c.id = choiceId
                      THEN [c EXCEPT !.isChosen = TRUE, !.nextNodeId = newId]
                      ELSE c
        fromNode == [added.nodes[fromNodeId] EXCEPT !.choices = [j \in DOMAIN @ |-> Resolve(@[j])]]
        updated == SetNode(added, fromNodeId, fromNode)
    IN [updated EXCEPT !.endNodeIds =
           IF newNode.choices = <<>> /\ ~Includes(@, newId) THEN Append(@, newId) ELSE @]

\* handleRegenerateNode, the setStory updater
regenerateFold(prevStory, targetNodeId, regeneratedNodeData) ==
    LET oldNode == prevStory.nodes[targetNodeId]
        updated == SetNode(prevStory, targetNodeId,
                           [oldNode EXCEPT !.dialogue = regeneratedNodeData.dialogue,
                                           !.choices = regeneratedNodeData.choices])
        isEnding == regeneratedNodeData.choices = <<>>
    IN [updated EXCEPT !.endNodeIds =
           IF isEnding /\ ~Includes(@, targetNodeId) THEN Append(@, targetNodeId)
           ELSE IF ~isEnding /\ Includes(@, targetNodeId) THEN SpliceFirst(@, targetNodeId)
           ELSE @]

\* handleRegenerateChoices, the setStory updater
regenerateChoicesFold(prevStory, nodeId, newChoices) ==
    SetNode(prevStory, nodeId, [prevStory.nodes[nodeId] EXCEPT !.choices = newChoices])

\* handleRequestMarkAsEnding, the setStory updater of onConfirm
markAsEnding(prev, nodeId) ==
    IF Includes(prev.endNodeIds, nodeId) THEN prev
    ELSE [SetNode(prev, nodeId, [prev.nodes[nodeId] EXCEPT !.choices = <<>>])
            EXCEPT !.endNodeIds = Append(@, nodeId)]

\* handleDeleteNode: the for loop over currentNode.choices
RECURSIVE deleteChoices(_, _, _, _)
deleteChoices(nodes, choices, queue, visited) ==
    IF choices = <<>> THEN [queue |-> queue, visited |-> visited]
    ELSE LET choice == Head(choices)
         IN IF /\ choice.nextNodeId # NULL
               /\ choice.nextNodeId \notin visited
               /\ choice.nextNodeId \in DOMAIN nodes
            THEN deleteChoices(nodes, Tail(choices),
                               Append(queue, choice.nextNodeId),
                               visited \cup {choice.nextNodeId})
            ELSE deleteChoices(nodes, Tail(choices), queue, visited)

\* handleDeleteNode: the while (queue.length > 0) loop; its result is nodesToDelete,
\* which the loop keeps equal to visited
RECURSIVE deleteLoop(_, _, _, _)
deleteLoop(nodes, queue, visited, fuel) ==
    IF queue = <<>> \/ fuel = 0 THEN visited
    ELSE LET currentId == Head(queue)
             r == IF currentId \in DOMAIN nodes
                  THEN deleteChoices(nodes, nodes[currentId].choices, Tail(queue), visited)
                  ELSE [queue |-> Tail(queue), visited |-> visited]
         IN deleteLoop(nodes, r.queue, r.visited, fuel - 1)

\* mutant: the queue is never processed, only nodeId is deleted
nodesToDelete_OnlyNode(s, nodeId) == {nodeId}

nodesToDelete(s, nodeId) == deleteLoop(s.nodes, <<nodeId>>, {nodeId}, MaxLoop)

\* mutant: the choices that point into the deleted set are left as they are
deleteFold_NoRepair(prevStory, toDelete) ==
    LET Remains(id) == id \notin toDelete
        remainingNodeIds == SelectSeq(prevStory.keys, Remains)
    IN [prevStory EXCEPT
          !.nodes = [id \in Range(remainingNodeIds) |-> prevStory.nodes[id]],
          !.keys = remainingNodeIds,
          !.endNodeIds = SelectSeq(@, Remains)]

\* mutant: the repaired choice keeps its isChosen flag
deleteFold_KeepsChosen(prevStory, toDelete) ==
    LET Remains(id) == id \notin toDelete
        remainingNodeIds == SelectSeq(prevStory.keys, Remains)
        Repair(choice) == IF choice.nextNodeId # NULL /\ choice.nextNodeId \in toDelete
                          THEN [choice EXCEPT !.nextNodeId = NULL]
                          ELSE choice
    IN [prevStory EXCEPT
          !.nodes = [id \in Range(remainingNodeIds) |->
                       [prevStory.nodes[id] EXCEPT !.choices = [j \in DOMAIN @ |-> Repair(@[j])]]],
          !.keys = remainingNodeIds,
          !.endNodeIds = SelectSeq(@, Remains)]

\* mutant: endNodeIds left as it was
deleteFold_EndingsKept(prevStory, toDelete) ==
    LET Remains(id) == id \notin toDelete
        remainingNodeIds == SelectSeq(prevStory.keys, Remains)
        Repair(choice) == IF choice.nextNodeId # NULL /\ choice.nextNodeId \in toDelete
                          THEN [choice EXCEPT !.nextNodeId = NULL, !.isChosen = FALSE]
                          ELSE choice
    IN [prevStory EXCEPT
          !.nodes = [id \in Range(remainingNodeIds) |->
                       [prevStory.nodes[id] EXCEPT !.choices = [j \in DOMAIN @ |-> Repair(@[j])]]],
          !.keys = remainingNodeIds]

\* handleDeleteNode, the setStory updater
deleteFold(prevStory, toDelete) ==
    LET Remains(id) == id \notin toDelete
        remainingNodeIds == SelectSeq(prevStory.keys, Remains)
        Repair(choice) == IF choice.nextNodeId # NULL /\ choice.nextNodeId \in toDelete
                          THEN [choice EXCEPT !.nextNodeId = NULL, !.isChosen = FALSE]
                          ELSE choice
    IN [prevStory EXCEPT
          !.nodes = [id \in Range(remainingNodeIds) |->
                       [prevStory.nodes[id] EXCEPT !.choices = [j \in DOMAIN @ |-> Repair(@[j])]]],
          !.keys = remainingNodeIds,
          !.endNodeIds = SelectSeq(@, Remains)]

\* recalculateScoresAndSetState: the scores it sets, and whether it returns
recalculateScores(targetNodeId, currentStory) ==
    calculatePathScores(currentStory, targetNodeId, getParentMap(currentStory))

\* newScores[choice.prediction]++ unless the prediction is none
addPrediction(scores, prediction) ==
    IF prediction # "none" THEN [scores EXCEPT ![prediction] = @ + 1] ELSE scores

---------------------------------------------------------------------------
(* App.tsx and components/GameScreen.tsx: the handlers.  A handler sets    *)
(* every variable but call, which the specifications set.                  *)

isEnding == Includes(story.endNodeIds, currentNodeId)

\* GameScreen is rendered with its controls, and no modal covers them
Playing ==
    /\ gamePhase = "play"
    /\ ~hung
    /\ modalConfig = NoModal
    /\ currentNodeId \in DOMAIN story.nodes

currentNode == story.nodes[currentNodeId]

\* one more editing handler is called, within the bound of the model
Edit == edits < MaxEdits /\ edits' = edits + 1

\* a handler that enters a loop that never exits: nothing it queued is committed
Hang ==
    /\ hung' = TRUE
    /\ UNCHANGED <<gamePhase, story, currentNodeId, pathScores, loading, modalConfig, request>>

handleStartGame(initialStory) ==
    /\ gamePhase = "setup"
    /\ story' = initialStory
    /\ currentNodeId' = initialStory.startNodeId
    /\ pathScores' = ZeroScores
    /\ gamePhase' = "play"
    /\ UNCHANGED <<loading, modalConfig, request, edits, hung>>

\* mutant: the choice button not disabled while loading
handleNavigate_NotDisabled(i) ==
    /\ Playing /\ ~isEnding
    /\ i \in DOMAIN currentNode.choices
    /\ currentNode.choices[i].nextNodeId = NULL
    /\ Cardinality(DOMAIN story.nodes) < MaxNodes
    /\ loading' = TRUE
    /\ request' = [kind |-> "navigate", choice |-> currentNode.choices[i],
                   fromNodeId |-> currentNodeId,
                   newScores |-> addPrediction(pathScores, currentNode.choices[i].prediction),
                   endingConditions |-> story.endingConditions,
                   endingType |-> endingType(addPrediction(pathScores,
                                                           currentNode.choices[i].prediction),
                                             story.endingConditions)]
    /\ UNCHANGED <<gamePhase, story, currentNodeId, pathScores, modalConfig, edits, hung>>

\* handleNavigate up to its await; the choice button is disabled while loading
\* and on an ending
handleNavigate(i) ==
    /\ Playing /\ ~loading /\ ~isEnding
    /\ i \in DOMAIN currentNode.choices
    /\ currentNode.choices[i].nextNodeId = NULL
    /\ Cardinality(DOMAIN story.nodes) < MaxNodes
    /\ loading' = TRUE
    /\ request' = [kind |-> "navigate", choice |-> currentNode.choices[i],
                   fromNodeId |-> currentNodeId,
                   newScores |-> addPrediction(pathScores, currentNode.choices[i].prediction),
                   endingConditions |-> story.endingConditions,
                   endingType |-> endingType(addPrediction(pathScores,
                                                           currentNode.choices[i].prediction),
                                             story.endingConditions)]
    /\ UNCHANGED <<gamePhase, story, currentNodeId, pathScores, modalConfig, edits, hung>>

\* node_${Date.now()}: an id no node has; no handler reads the order of ids
\* but the sort of generatePageMap, so the least free id stands for it
FreshNodeId(s) ==
    CHOOSE n \in NodeIds \ DOMAIN s.nodes : \A m \in NodeIds \ DOMAIN s.nodes : n <= m

\* handleNavigate after generateStoryNode resolved
handleNavigateResolved(newNode, newId) ==
    /\ request.kind = "navigate" /\ ~hung
    /\ NodeIds \ DOMAIN story.nodes # {}
    /\ newId = FreshNodeId(story)
    /\ story' = foldIn(story, newId, newNode, request.fromNodeId, request.choice.id)
    /\ currentNodeId' = newId
    /\ pathScores' = request.newScores
    /\ loading' = FALSE
    /\ request' = NoRequest
    /\ UNCHANGED <<gamePhase, modalConfig, edits, hung>>

\* mutant: the catch block falls back to the scores of the start node
handleRequestRejected_ResetsScores ==
    /\ request.kind \in {"navigate", "regenerateNode", "regenerateChoices"} /\ ~hung
    /\ loading' = FALSE
    /\ request' = NoRequest
    /\ pathScores' = ZeroScores
    /\ UNCHANGED <<gamePhase, story, currentNodeId, modalConfig, edits, hung>>

\* the catch and finally blocks of handleNavigate, handleRegenerateNode and
\* handleRegenerateChoices
handleRequestRejected ==
    /\ request.kind \in {"navigate", "regenerateNode", "regenerateChoices"} /\ ~hung
    /\ loading' = FALSE
    /\ request' = NoRequest
    /\ UNCHANGED <<gamePhase, story, currentNodeId, pathScores, modalConfig, edits, hung>>

\* recalculateScoresAndSetState after setCurrentNodeId(nodeId)
JumpTo(nodeId, currentStory) ==
    LET r == recalculateScores(nodeId, currentStory)
    IN IF r.terminated
       THEN /\ currentNodeId' = nodeId
            /\ pathScores' = r.scores
            /\ UNCHANGED <<gamePhase, story, loading, modalConfig, request, hung>>
       ELSE Hang

handleChoiceJump(i) ==
    /\ Playing /\ ~loading /\ ~isEnding
    /\ i \in DOMAIN currentNode.choices
    /\ currentNode.choices[i].nextNodeId # NULL
    /\ JumpTo(currentNode.choices[i].nextNodeId, story)
    /\ UNCHANGED edits

\* the Jump to Page select lists the entries of pageMap; it is not disabled while loading
handleJumpToNode(nodeId) ==
    /\ Playing
    /\ nodeId \in DOMAIN generatePageMap(story.nodes, story.keys, story.startNodeId).pageMap
    /\ nodeId # currentNodeId
    /\ JumpTo(nodeId, story)
    /\ UNCHANGED edits

\* handleRegenerateNode up to its await
handleRegenerateNode(i) ==
    /\ Playing /\ ~loading
    /\ i \in DOMAIN currentNode.choices
    /\ currentNode.choices[i].nextNodeId # NULL
    /\ Edit
    /\ LET choice == currentNode.choices[i]
           r == recalculateScores(currentNodeId, story)
       IN IF r.terminated
          THEN /\ loading' = TRUE
               /\ request' = [kind |-> "regenerateNode", choice |-> choice,
                              fromNodeId |-> currentNodeId,
                              newScores |-> addPrediction(r.scores, choice.prediction),
                              endingConditions |-> story.endingConditions,
                              endingType |-> endingType(addPrediction(r.scores,
                                                                      choice.prediction),
                                                        story.endingConditions),
                              story |-> story]
               /\ UNCHANGED <<gamePhase, story, currentNodeId, pathScores, modalConfig, hung>>
          ELSE Hang

\* handleRegenerateNode after generateStoryNode resolved; the scores are
\* recalculated on the story the handler was created with
handleRegenerateNodeResolved(regeneratedNodeData) ==
    /\ request.kind = "regenerateNode" /\ ~hung
    /\ UNCHANGED edits
    /\ LET targetNodeId == request.choice.nextNodeId
           r == recalculateScores(targetNodeId, request.story)
       IN IF r.terminated
          THEN /\ story' = regenerateFold(story, targetNodeId, regeneratedNodeData)
               /\ currentNodeId' = targetNodeId
               /\ pathScores' = r.scores
               /\ loading' = FALSE
               /\ request' = NoRequest
               /\ UNCHANGED <<gamePhase, modalConfig, hung>>
          ELSE Hang

\* handleRegenerateChoices up to its await
handleRegenerateChoices ==
    /\ Playing /\ ~loading
    /\ Edit
    /\ loading' = TRUE
    /\ request' = [kind |-> "regenerateChoices", nodeId |-> currentNodeId]
    /\ UNCHANGED <<gamePhase, story, currentNodeId, pathScores, modalConfig, hung>>

handleRegenerateChoicesResolved(newChoices) ==
    /\ request.kind = "regenerateChoices" /\ ~hung
    /\ story' = regenerateChoicesFold(story, request.nodeId, newChoices)
    /\ loading' = FALSE
    /\ request' = NoRequest
    /\ UNCHANGED <<gamePhase, currentNodeId, pathScores, modalConfig, edits, hung>>

\* an id no choice of the node has: choice_manual_${Date.now()}
FreshChoiceId(choices) ==
    CHOOSE k \in 1..(Len(choices) + 1) : \A j \in DOMAIN choices : choices[j].id # k

\* GameScreen handleAddChoice; the button is disabled while loading
handleAddChoice ==
    /\ Playing /\ ~loading
    /\ Len(currentNode.choices) < MaxChoices
    /\ Edit
    /\ story' = SetNode(story, currentNodeId,
                        [currentNode EXCEPT !.choices =
                           Append(@, [id |-> FreshChoiceId(@), text |-> 0, nextNodeId |-> NULL,
                                      isChosen |-> FALSE, prediction |-> "none"])])
    /\ UNCHANGED <<gamePhase, currentNodeId, pathScores, loading, modalConfig, request, hung>>

\* GameScreen handleRemoveChoice; its button is never disabled
handleRemoveChoice(choiceId) ==
    /\ Playing
    /\ \E j \in DOMAIN currentNode.choices : currentNode.choices[j].id = choiceId
    /\ Edit
    /\ LET Keep(c) == c.id # choiceId
       IN story' = SetNode(story, currentNodeId,
                           [currentNode EXCEPT !.choices = SelectSeq(@, Keep)])
    /\ UNCHANGED <<gamePhase, currentNodeId, pathScores, loading, modalConfig, request, hung>>

\* the confirm modal of handleRequestMarkAsEnding
handleRequestMarkAsEnding ==
    /\ Playing /\ ~loading /\ ~isEnding
    /\ Edit
    /\ modalConfig' = [type |-> "markAsEnding", nodeId |-> currentNodeId]
    /\ UNCHANGED <<gamePhase, story, currentNodeId, pathScores, loading, request, hung>>

\* handleRequestDeleteNode: an alert for the start node, the confirm modal
\* otherwise; the Delete button is disabled while loading, and on the start
\* page, where the handler tests the id again
handleRequestDeleteNode(nodeId) ==
    /\ Playing /\ ~loading
    /\ modalConfig' = IF nodeId = story.startNodeId THEN modalConfig
                      ELSE [type |-> "delete", nodeId |-> nodeId]
    /\ UNCHANGED <<gamePhase, story, currentNodeId, pathScores, loading, request, edits, hung>>

\* mutant: handleDeleteNode without the test nodeId === story.startNodeId
handleDeleteNode_NoStartTest(nodeId) ==
    /\ story' = deleteFold(story, nodesToDelete(story, nodeId))
    /\ currentNodeId' = story.startNodeId
    /\ pathScores' = recalculateScores(story.startNodeId, story).scores

\* handleDeleteNode: what it does to story, currentNodeId and pathScores; the
\* backward walk of calculatePathScores from the start node breaks at once
handleDeleteNode(nodeId) ==
    IF nodeId = story.startNodeId
    THEN UNCHANGED <<story, currentNodeId, pathScores>>
    ELSE /\ story' = deleteFold(story, nodesToDelete(story, nodeId))
         /\ currentNodeId' = story.startNodeId
         /\ pathScores' = recalculateScores(story.startNodeId, story).scores

\* Modal: the Confirm button calls onConfirm
ModalConfirm ==
    /\ gamePhase = "play" /\ ~hung
    /\ modalConfig # NoModal
    /\ modalConfig' = NoModal
    /\ IF modalConfig.type = "delete"
       THEN handleDeleteNode(modalConfig.nodeId)
       ELSE /\ story' = markAsEnding(story, modalConfig.nodeId)
            /\ UNCHANGED <<currentNodeId, pathScores>>
    /\ UNCHANGED <<gamePhase, loading, request, edits, hung>>

\* Modal: Cancel, Escape or a click outside call onClose
ModalClose ==
    /\ gamePhase = "play" /\ ~hung
    /\ modalConfig # NoModal
    /\ modalConfig' = NoModal
    /\ UNCHANGED <<gamePhase, story, currentNodeId, pathScores, loading, request, edits, hung>>

---------------------------------------------------------------------------
(* The application: from the setup screen, a story is started or imported  *)
(* and then edited through the handlers.                                   *)

Init ==
    /\ gamePhase = "setup"
    /\ story = NoStory
    /\ currentNodeId = NULL
    /\ pathScores = ZeroScores
    /\ loading = FALSE
    /\ modalConfig = NoModal
    /\ request = NoRequest
    /\ edits = 0
    /\ hung = FALSE
    /\ pages = <<>>
    /\ exportScreen = "ExportScreen"
    /\ call = NoCall

Next ==
    \/ \E initialStory \in FreshStories \cup ImportedStories : handleStartGame(initialStory) /\ UNCHANGED <<call, pages, exportScreen>>
    \/ \E i \in 1..MaxChoices : handleNavigate(i) /\ UNCHANGED <<call, pages, exportScreen>>
    \/ \E newNode \in ProducedNodes, newId \in NodeIds : handleNavigateResolved(newNode, newId) /\ UNCHANGED <<call, pages, exportScreen>>
    \/ handleRequestRejected /\ UNCHANGED <<call, pages, exportScreen>>
    \/ \E i \in 1..MaxChoices : handleChoiceJump(i) /\ UNCHANGED <<call, pages, exportScreen>>
    \/ \E nodeId \in NodeIds : handleJumpToNode(nodeId) /\ UNCHANGED <<call, pages, exportScreen>>
    \/ \E i \in 1..MaxChoices : handleRegenerateNode(i) /\ UNCHANGED <<call, pages, exportScreen>>
    \/ \E regeneratedNodeData \in ProducedNodes : handleRegenerateNodeResolved(regeneratedNodeData) /\ UNCHANGED <<call, pages, exportScreen>>
    \/ handleRegenerateChoices /\ UNCHANGED <<call, pages, exportScreen>>
    \/ \E newChoices \in ProducedChoiceSeqs : handleRegenerateChoicesResolved(newChoices) /\ UNCHANGED <<call, pages, exportScreen>>
    \/ handleAddChoice /\ UNCHANGED <<call, pages, exportScreen>>
    \/ \E choiceId \in 1..(MaxChoices + 1) : handleRemoveChoice(choiceId) /\ UNCHANGED <<call, pages, exportScreen>>
    \/ handleRequestMarkAsEnding /\ UNCHANGED <<call, pages, exportScreen>>
    \/ handleRequestDeleteNode(currentNodeId) /\ UNCHANGED <<call, pages, exportScreen>>
    \/ ModalConfirm /\ UNCHANGED <<call, pages, exportScreen>>
    \/ ModalClose /\ UNCHANGED <<call, pages, exportScreen>>

Spec == Init /\ [][Next]_vars

---------------------------------------------------------------------------
(* Requests for new content: handleAutoCompleteStory, handleNavigate and   *)
(* handleRegenerateNode on stories with any thresholds within the bound.   *)
(* The auto-completion in progress is kept in request.                     *)

ThresholdSets == [{"good", "bad", "mixed"} -> 1..MaxThreshold]

\* handleAutoCompleteStory: from the for loop at index i of node nodeId (NULL:
\* at the head of the while loop), the place of the next call of
\* generateStoryNode, or done when the queue runs empty
RECURSIVE autoCompleteNext(_, _, _, _)
autoCompleteNext(storyInProgress, queue, nodeId, i) ==
    IF nodeId = NULL
    THEN IF queue = <<>> THEN [done |-> TRUE]
         ELSE autoCompleteNext(storyInProgress, Tail(queue), Head(queue), 1)
    ELSE IF i > Len(storyInProgress.nodes[nodeId].choices)
    THEN autoCompleteNext(storyInProgress, queue, NULL, 1)
    ELSE IF storyInProgress.nodes[nodeId].choices[i].nextNodeId # NULL
    THEN autoCompleteNext(storyInProgress, queue, nodeId, i + 1)
    ELSE [done |-> FALSE, queue |-> queue, nodeId |-> nodeId, i |-> i]

\* handleAutoCompleteStory: setStory(storyInProgress) and the updates with it,
\* after the loop and in the catch block
autoCompleteLoad(storyInProgress) ==
    /\ story' = storyInProgress
    /\ currentNodeId' = storyInProgress.startNodeId
    /\ pathScores' = ZeroScores
    /\ gamePhase' = "play"
    /\ loading' = FALSE
    /\ request' = NoRequest

\* handleAutoCompleteStory: on to the next call of generateStoryNode, with the
\* scores of the path to nodeId and the prediction of the choice
autoCompleteContinue(storyInProgress, queue, nodeId, i) ==
    \E next \in {autoCompleteNext(storyInProgress, queue, nodeId, i)} :
       IF next.done
       THEN autoCompleteLoad(storyInProgress)
       ELSE \E choice \in {storyInProgress.nodes[next.nodeId].choices[next.i]} :
            \E parentMap \in {getParentMap(storyInProgress)} :
            \E newScores \in {addPrediction(
                    calculatePathScores(storyInProgress, next.nodeId, parentMap).scores,
                    choice.prediction)} :
               /\ request' = [kind |-> "autoComplete", storyInProgress |-> storyInProgress,
                              queue |-> next.queue, fromNodeId |-> next.nodeId, i |-> next.i,
                              choice |-> choice, newScores |-> newScores,
                              endingConditions |-> storyInProgress.endingConditions,
                              endingType |-> endingType(newScores,
                                                        storyInProgress.endingConditions)]
               /\ loading' = TRUE
               /\ UNCHANGED <<gamePhase, story, currentNodeId, pathScores>>

\* handleAutoCompleteStory up to its first call of generateStoryNode
handleAutoCompleteStory(initialNodeData, endingConditions) ==
    /\ gamePhase = "setup" /\ request = NoRequest
    /\ LET startNodeId == FreshNodeId(NoStory)
           storyInProgress ==
               [nodes |-> [n \in {startNodeId} |->
                             [id |-> startNodeId, dialogue |-> initialNodeData.dialogue,
                              illustrationUrl |-> 0, choices |-> initialNodeData.choices]],
                keys |-> <<startNodeId>>, startNodeId |-> startNodeId, endNodeIds |-> <<>>,
                endingConditions |-> endingConditions]
       IN autoCompleteContinue(storyInProgress, <<startNodeId>>, NULL, 1)
    /\ UNCHANGED <<modalConfig, edits, hung>>

\* mutant: the new node is flagged as an ending whenever it has no choices,
\* and a second time when its parent is the start node
autoCompleteFold_EndingTwice(newNodeData, newId) ==
    LET added == SetNode(request.storyInProgress, newId,
                         [id |-> newId, dialogue |-> newNodeData.dialogue,
                          illustrationUrl |-> 0, choices |-> newNodeData.choices])
        parentNode == [added.nodes[request.fromNodeId] EXCEPT
                         !.choices[request.i] = [request.choice EXCEPT
                                                   !.nextNodeId = newId,
                                                   !.isChosen = TRUE]]
        linked == SetNode(added, request.fromNodeId, parentNode)
        isEndingNode == newNodeData.choices = <<>>
        storyInProgress ==
            [linked EXCEPT !.endNodeIds =
               IF isEndingNode
               THEN IF request.fromNodeId = linked.startNodeId
                    THEN Append(Append(@, newId), newId) ELSE Append(@, newId)
               ELSE @]
        queue == IF isEndingNode THEN request.queue ELSE Append(request.queue, newId)
    IN \E inProgress \in {storyInProgress} :
          autoCompleteContinue(inProgress, queue, request.fromNodeId, request.i + 1)

\* mutant: a generated node with choices is not put on the queue
autoCompleteFold_NoEnqueue(newNodeData, newId) ==
    LET added == SetNode(request.storyInProgress, newId,
                         [id |-> newId, dialogue |-> newNodeData.dialogue,
                          illustrationUrl |-> 0, choices |-> newNodeData.choices])
        parentNode == [added.nodes[request.fromNodeId] EXCEPT
                         !.choices[request.i] = [request.choice EXCEPT
                                                   !.nextNodeId = newId,
                                                   !.isChosen = TRUE]]
        linked == SetNode(added, request.fromNodeId, parentNode)
        isEndingNode == newNodeData.choices = <<>>
        storyInProgress ==
            [linked EXCEPT !.endNodeIds =
               IF isEndingNode /\ ~Includes(@, newId) THEN Append(@, newId) ELSE @]
    IN \E inProgress \in {storyInProgress} :
          autoCompleteContinue(inProgress, request.queue, request.fromNodeId, request.i + 1)

\* handleAutoCompleteStory: the body of the for loop after generateStoryNode
\* resolved, with newId the id of the new node
autoCompleteFold(newNodeData, newId) ==
    LET added == SetNode(request.storyInProgress, newId,
                         [id |-> newId, dialogue |-> newNodeData.dialogue,
                          illustrationUrl |-> 0, choices |-> newNodeData.choices])
        parentNode == [added.nodes[request.fromNodeId] EXCEPT
                         !.choices[request.i] = [request.choice EXCEPT
                                                   !.nextNodeId = newId,
                                                   !.isChosen = TRUE]]
        linked == SetNode(added, request.fromNodeId, parentNode)
        isEndingNode == newNodeData.choices = <<>>
        storyInProgress ==
            [linked EXCEPT !.endNodeIds =
               IF isEndingNode /\ ~Includes(@, newId) THEN Append(@, newId) ELSE @]
        queue == IF isEndingNode THEN request.queue ELSE Append(request.queue, newId)
    IN \E inProgress \in {storyInProgress} :
          autoCompleteContinue(inProgress, queue, request.fromNodeId, request.i + 1)

\* handleAutoCompleteStory after a call of generateStoryNode resolved
autoCompleteResolved(newNodeData) ==
    /\ request.kind = "autoComplete"
    /\ Cardinality(DOMAIN request.storyInProgress.nodes) < MaxNodes
    /\ autoCompleteFold(newNodeData, FreshNodeId(request.storyInProgress))
    /\ UNCHANGED <<modalConfig, edits, hung>>

\* handleAutoCompleteStory: the catch block loads what has been generated
autoCompleteRejected ==
    /\ request.kind = "autoComplete"
    /\ autoCompleteLoad(request.storyInProgress)
    /\ UNCHANGED <<modalConfig, edits, hung>>

\* GameScreen handleEndingConditionChange, for a value that parses to >= 1
handleEndingConditionChange(type, numValue) ==
    /\ Playing
    /\ numValue >= 1
    /\ story.endingConditions[type] # numValue
    /\ story' = [story EXCEPT !.endingConditions[type] = numValue]
    /\ UNCHANGED <<gamePhase, currentNodeId, pathScores, loading, modalConfig, request,
                   edits, hung>>

NextRequest ==
    \/ \E initialNodeData \in ProducedNodes, endingConditions \in ThresholdSets :
         handleAutoCompleteStory(initialNodeData, endingConditions) /\ UNCHANGED <<call, pages, exportScreen>>
    \/ \E newNodeData \in ProducedNodes : autoCompleteResolved(newNodeData) /\ UNCHANGED <<call, pages, exportScreen>>
    \/ autoCompleteRejected /\ UNCHANGED <<call, pages, exportScreen>>
    \/ \E initialStory \in ImportedStories : handleStartGame(initialStory) /\ UNCHANGED <<call, pages, exportScreen>>
    \/ \E type \in {"good", "bad", "mixed"}, numValue \in 1..MaxThreshold :
         handleEndingConditionChange(type, numValue) /\ UNCHANGED <<call, pages, exportScreen>>
    \/ \E i \in 1..MaxChoices : handleNavigate(i) /\ UNCHANGED <<call, pages, exportScreen>>
    \/ \E newNode \in ProducedNodes, newId \in NodeIds :
         handleNavigateResolved(newNode, newId) /\ UNCHANGED <<call, pages, exportScreen>>
    \/ handleRequestRejected /\ UNCHANGED <<call, pages, exportScreen>>
    \/ \E i \in 1..MaxChoices : handleChoiceJump(i) /\ UNCHANGED <<call, pages, exportScreen>>
    \/ \E nodeId \in NodeIds : handleJumpToNode(nodeId) /\ UNCHANGED <<call, pages, exportScreen>>
    \/ \E i \in 1..MaxChoices : handleRegenerateNode(i) /\ UNCHANGED <<call, pages, exportScreen>>
    \/ \E regeneratedNodeData \in ProducedNodes :
         handleRegenerateNodeResolved(regeneratedNodeData) /\ UNCHANGED <<call, pages, exportScreen>>

SpecRequest == Init /\ [][NextRequest]_vars

---------------------------------------------------------------------------
(* Deletion: handleRequestDeleteNode, the modal and handleDeleteNode        *)
(* applied to imported stories, which handleImportStory takes as they are.  *)
(* call records the handler of the step and the state it was called in.     *)

\* every graph, its keys in ascending order of id, the choice at position i
\* tagged PredictionCycle[i], and the nodes without choices as endings
InitDelete ==
    /\ \E present \in (SUBSET NodeIds) \ {{}} :
         \E keys \in {SortIds(k) : k \in Perms(present)}, start \in present,
            lens \in Shapes(present) :
           \E targets \in [Slots(lens) -> 0..MaxNodes] :
             LET NoChoices(n) == lens[n] = 0
                 g == GraphStory(keys, start, lens, targets,
                                 [sl \in Slots(lens) |-> PredictionCycle[sl[2]]])
             IN story = [g EXCEPT !.endNodeIds = SelectSeq(keys, NoChoices)]
    /\ gamePhase = "play"
    /\ currentNodeId \in DOMAIN story.nodes
    /\ pathScores = ZeroScores
    /\ loading = FALSE
    /\ modalConfig = NoModal
    /\ request = NoRequest
    /\ edits = 0
    /\ hung = FALSE
    /\ pages = <<>>
    /\ exportScreen = "ExportScreen"
    /\ call = NoCall

Called(fn, nodeId) ==
    /\ call' = [fn |-> fn, nodeId |-> nodeId, story |-> story,
                currentNodeId |-> currentNodeId, pathScores |-> pathScores,
                request |-> request]
    /\ UNCHANGED <<pages, exportScreen>>

DeleteRequested ==
    handleRequestDeleteNode(currentNodeId) /\ Called("handleRequestDeleteNode", currentNodeId)

DeleteConfirmed ==
    ModalConfirm /\ Called("handleDeleteNode", modalConfig.nodeId)

DeleteCancelled ==
    ModalClose /\ Called("onClose", modalConfig.nodeId)

\* handleDeleteNode called with the id of any node, the start node's included
DeleteCalled(nodeId) ==
    /\ gamePhase = "play" /\ ~hung /\ modalConfig = NoModal
    /\ nodeId \in DOMAIN story.nodes
    /\ handleDeleteNode(nodeId)
    /\ Called("handleDeleteNode", nodeId)
    /\ UNCHANGED <<gamePhase, loading, modalConfig, request, edits, hung>>

DeleteJumped(nodeId) ==
    handleJumpToNode(nodeId) /\ Called("handleJumpToNode", nodeId)

NextDelete ==
    \/ DeleteRequested
    \/ DeleteConfirmed
    \/ DeleteCancelled
    \/ \E nodeId \in NodeIds : DeleteCalled(nodeId)
    \/ \E nodeId \in NodeIds : DeleteJumped(nodeId)

SpecDelete == InitDelete /\ [][NextDelete]_vars

---------------------------------------------------------------------------
(* Attachment: handleNavigate applied to imported stories, on any page     *)
(* with an unresolved choice, a page no path from the start node leads to  *)
(* included.                                                               *)

\* the imported story leaves room for the node that is attached
MaxImported == MaxNodes - 1

InitAttach ==
    /\ \E present \in (SUBSET NodeIds) \ {{}} :
         /\ Cardinality(present) <= MaxImported
         /\ \E keys \in {SortIds(k) : k \in Perms(present)}, start \in present,
               lens \in Shapes(present) :
              \E targets \in [Slots(lens) -> present \cup {NULL}],
                 predictions \in [Slots(lens) -> Predictions] :
                story = GraphStory(keys, start, lens, targets, predictions)
    /\ gamePhase = "play"
    /\ currentNodeId \in DOMAIN story.nodes
    /\ pathScores = ZeroScores
    /\ loading = FALSE
    /\ modalConfig = NoModal
    /\ request = NoRequest
    /\ edits = 0
    /\ hung = FALSE
    /\ pages = <<>>
    /\ exportScreen = "ExportScreen"
    /\ call = NoCall

AttachRequested(i) ==
    handleNavigate(i) /\ Called("generateStoryNode", currentNodeId)

AttachResolved(newNode, newId) ==
    handleNavigateResolved(newNode, newId) /\ Called("handleNavigate", request.fromNodeId)

AttachRejected ==
    handleRequestRejected /\ Called("catch", currentNodeId)

NextAttach ==
    \/ \E i \in 1..MaxChoices : AttachRequested(i)
    \/ \E newNode \in ProducedNodes, newId \in NodeIds : AttachResolved(newNode, newId)
    \/ AttachRejected

SpecAttach == InitAttach /\ [][NextAttach]_vars

---------------------------------------------------------------------------
(* Graph notions the properties are stated with *)

\* the targets of the resolved choices of node n that exist in nodes
Successors(nodes, n) ==
    {nodes[n].choices[i].nextNodeId : i \in DOMAIN nodes[n].choices} \cap DOMAIN nodes

\* the nodes reachable from the set S through resolved choices to existing nodes
RECURSIVE ReachableFrom(_, _)
ReachableFrom(nodes, S) ==
    LET T == S \cup UNION {Successors(nodes, n) : n \in S}
    IN IF T = S THEN S ELSE ReachableFrom(nodes, T)

Reachable(s) == ReachableFrom(s.nodes, {s.startNodeId} \cap DOMAIN s.nodes)

HasEdge(nodes, a, b) == a \in DOMAIN nodes /\ b \in Successors(nodes, a)

\* the last id of the chain target, parent(target), parent(parent(target)), ...
\* that stops at the start node or at an id with no recorded parent; NULL when
\* the chain is longer than any chain without a repeated id
RECURSIVE ChainEnd(_, _, _, _)
ChainEnd(startNodeId, parentMap, id, n) ==
    IF id = startNodeId \/ id \notin DOMAIN parentMap THEN id
    ELSE IF n = 0 THEN NULL
    ELSE ChainEnd(startNodeId, parentMap, parentMap[id], n - 1)

---------------------------------------------------------------------------
(* The state handleDeleteNode was called in, and what it removed *)

Deleted == call.fn = "handleDeleteNode"

RemovedIds == DOMAIN call.story.nodes \ DOMAIN story.nodes

\* nodes without node n: the paths of this graph avoid n
Without(nodes, n) == [m \in DOMAIN nodes \ {n} |-> nodes[m]]

---------------------------------------------------------------------------
(* C1.  The start node survives every deletion: after handleDeleteNode,    *)
(* for every story and every nodeId, startNodeId is still a key of nodes,  *)
(* also when the start node is reachable from nodeId.                      *)

C1_StartNodeSurvives ==
    Deleted => call.story.startNodeId \in DOMAIN story.nodes

---------------------------------------------------------------------------
(* C2.  No dangling edge: from a story whose resolved choices all point to *)
(* keys of nodes, after any sequence of the handlers every non-null        *)
(* nextNodeId of every node of nodes is a key of nodes.                    *)

C2_NoDanglingEdge ==
    \A n \in DOMAIN story.nodes :
        \A j \in DOMAIN story.nodes[n].choices :
            story.nodes[n].choices[j].nextNodeId # NULL =>
                story.nodes[n].choices[j].nextNodeId \in DOMAIN story.nodes

\* the story imported with the start node 3, after the deletion of node 2 and
\* of node 1 below it: the two choices of the start node, which pointed to
\* them, are unresolved
C2_Witness ==
    /\ gamePhase = "play"
    /\ story.startNodeId = 3
    /\ story.keys = <<3>>
    /\ Len(story.nodes[3].choices) = 2
    /\ \A j \in 1..2 : /\ story.nodes[3].choices[j].nextNodeId = NULL
                       /\ ~story.nodes[3].choices[j].isChosen
                       /\ story.nodes[3].choices[j].prediction # "none"

---------------------------------------------------------------------------
(* C3.  Deletion exclusivity: for nodeId other than the start node, the    *)
(* nodes handleDeleteNode removes are exactly those reachable from nodeId  *)
(* through resolved choices to existing nodes, nodeId included.            *)

C3_DeletionExclusivity ==
    (Deleted /\ call.nodeId # call.story.startNodeId) =>
        RemovedIds = ReachableFrom(call.story.nodes, {call.nodeId})

\* a removed node other than nodeId that the start node also reaches along
\* paths that avoid nodeId, and a node besides the start node that survives
C3_Witness ==
    /\ Deleted
    /\ call.nodeId # call.story.startNodeId
    /\ \E m \in RemovedIds \ {call.nodeId} :
         m \in ReachableFrom(Without(call.story.nodes, call.nodeId), {call.story.startNodeId})
    /\ call.story.startNodeId \in DOMAIN story.nodes

---------------------------------------------------------------------------
(* C4.  Edge repair with frame: after handleDeleteNode, a choice of a      *)
(* surviving node that pointed into the removed set has nextNodeId null    *)
(* and isChosen false and is otherwise as before; every other choice is    *)
(* unchanged, choices keep their order, and the surviving node's id,       *)
(* dialogue and illustration are unchanged.                                *)

C4_EdgeRepairFrame ==
    Deleted =>
        \A id \in DOMAIN story.nodes :
            LET old == call.story.nodes[id]
                new == story.nodes[id]
            IN /\ new.id = old.id
               /\ new.dialogue = old.dialogue
               /\ new.illustrationUrl = old.illustrationUrl
               /\ Len(new.choices) = Len(old.choices)
               /\ \A j \in DOMAIN old.choices :
                    IF old.choices[j].nextNodeId \in RemovedIds
                    THEN new.choices[j] = [old.choices[j] EXCEPT !.nextNodeId = NULL,
                                                                 !.isChosen = FALSE]
                    ELSE new.choices[j] = old.choices[j]

\* a surviving node whose first choice was chosen and pointed into the removed
\* set, and whose second choice points to a surviving node
C4_Witness ==
    /\ Deleted
    /\ \E id \in DOMAIN story.nodes :
         LET old == call.story.nodes[id]
         IN /\ Len(old.choices) = 2
            /\ old.choices[1].nextNodeId \in RemovedIds
            /\ old.choices[1].isChosen
            /\ story.nodes[id].choices[1].nextNodeId = NULL
            /\ old.choices[2].nextNodeId \in DOMAIN story.nodes
            /\ story.nodes[id].choices[2].isChosen

---------------------------------------------------------------------------
(* C5.  Deleting the start node is a no-op: handleDeleteNode and           *)
(* handleRequestDeleteNode called with startNodeId leave nodes, every      *)
(* choice, endNodeIds, currentNodeId and pathScores as they were.          *)

C5_StartDeleteNoOp ==
    (/\ call.fn \in {"handleDeleteNode", "handleRequestDeleteNode"}
     /\ call.nodeId = call.story.startNodeId) =>
        /\ story = call.story
        /\ currentNodeId = call.currentNodeId
        /\ pathScores = call.pathScores

\* handleDeleteNode called with the start node of a story of several nodes,
\* the start node with a resolved choice, on another page than the start
C5_Witness ==
    /\ Deleted
    /\ call.nodeId = call.story.startNodeId
    /\ call.nodeId \in DOMAIN call.story.nodes
    /\ Successors(call.story.nodes, call.nodeId) \ {call.nodeId} # {}
    /\ call.currentNodeId # call.story.startNodeId
    /\ DOMAIN story.nodes = DOMAIN call.story.nodes

---------------------------------------------------------------------------
(* C6.  Well-formed numbering: on every nodes object that contains the     *)
(* start node, cycles and convergent edges included, generatePageMap       *)
(* comes to its end and returns a map with one entry per node id, whose    *)
(* values are the integers 1..|nodes|, no value used twice, and the start  *)
(* node mapped to 1.                                                       *)
C6_WellFormedNumbering ==
    (call.fn = "generatePageMap" /\ story.startNodeId \in DOMAIN story.nodes) =>
        LET pageMap == call.result.pageMap
        IN /\ call.result.terminated
           /\ DOMAIN pageMap = DOMAIN story.nodes
           /\ {pageMap[n] : n \in DOMAIN pageMap} = 1..Cardinality(DOMAIN story.nodes)
           /\ \A a, b \in DOMAIN pageMap : a # b => pageMap[a] # pageMap[b]
           /\ pageMap[story.startNodeId] = 1

\* a numbered graph of three nodes with an edge from a descendant back to the root
C6_Witness ==
    /\ call.fn = "generatePageMap"
    /\ call.result.terminated
    /\ Cardinality(DOMAIN story.nodes) = 3
    /\ \E a, b \in DOMAIN story.nodes :
         /\ a # story.startNodeId /\ b # story.startNodeId /\ a # b
         /\ HasEdge(story.nodes, story.startNodeId, a)
         /\ HasEdge(story.nodes, a, b)
         /\ HasEdge(story.nodes, b, story.startNodeId)

(* C7.  Orphan inclusion: every node not reachable from the start node     *)
(* gets a page number greater than that of every reachable node, and       *)
(* among orphans page numbers increase with the lexicographic order of     *)
(* the ids.                                                                *)
C7_OrphanInclusion ==
    (call.fn = "generatePageMap" /\ story.startNodeId \in DOMAIN story.nodes) =>
        LET pageMap == call.result.pageMap
            reached == Reachable(story)
            orphans == (DOMAIN story.nodes) \ reached
        IN /\ orphans \subseteq DOMAIN pageMap
           /\ \A o \in orphans : \A r \in reached : pageMap[o] > pageMap[r]
           /\ \A o1, o2 \in orphans : o1 < o2 => pageMap[o1] < pageMap[o2]

\* two orphans whose keys come in descending order of id
C7_Witness ==
    /\ call.fn = "generatePageMap"
    /\ \E i, j \in DOMAIN story.keys :
         /\ i < j /\ story.keys[i] > story.keys[j]
         /\ story.keys[i] \notin Reachable(story)
         /\ story.keys[j] \notin Reachable(story)
         /\ call.result.pageMap[story.keys[j]] < call.result.pageMap[story.keys[i]]

---------------------------------------------------------------------------
(* C8.  calculatePathScores comes to its end for every story and every     *)
(* target node when called with the map of getParentMap, stories with      *)
(* cycles included.  (A walk of more than MaxLoop > MaxNodes steps has     *)
(* come back to an id it left, and then never stops.)                      *)
C8_ScorePathTerminates ==
    call.fn = "calculatePathScores" => call.result.terminated

---------------------------------------------------------------------------
(* C9.  Path score monotonicity.  As claimed: when handleNavigate attaches *)
(* a new node N to a node P by resolving a choice of P of category X, the  *)
(* scores of N on the updated story are those of P with one more in X when *)
(* X is good, bad or mixed, and those of P when X is none; the scores of   *)
(* the start node are zero.                                                *)

ScoresOf(nodeId) == calculatePathScores(story, nodeId, getParentMap(story))

Attached == call.fn = "handleNavigate"

PlusOne(scoresN, scoresP, X) ==
    \A cat \in {"good", "bad", "mixed"} :
        scoresN[cat] = scoresP[cat] + (IF cat = X THEN 1 ELSE 0)

C9_Monotonicity ==
    Attached =>
        /\ ScoresOf(currentNodeId).terminated /\ ScoresOf(call.nodeId).terminated
        /\ PlusOne(ScoresOf(currentNodeId).scores, ScoresOf(call.nodeId).scores,
                   call.request.choice.prediction)
        /\ ScoresOf(story.startNodeId).scores = ZeroScores

(* C9, amended: the same, for a node P whose chain of recorded parents     *)
(* leads to the start node.                                                *)

C9_MonotonicityOnStartPaths ==
    (/\ Attached
     /\ ChainEnd(story.startNodeId, getParentMap(story), call.nodeId, MaxNodes)
            = story.startNodeId) =>
        /\ ScoresOf(currentNodeId).terminated /\ ScoresOf(call.nodeId).terminated
        /\ PlusOne(ScoresOf(currentNodeId).scores, ScoresOf(call.nodeId).scores,
                   call.request.choice.prediction)
        /\ ScoresOf(story.startNodeId).scores = ZeroScores

\* N attached by a good choice to a node P that is not the start node and has
\* a score of its own
C9_Witness ==
    /\ Attached
    /\ call.nodeId # story.startNodeId
    /\ ChainEnd(story.startNodeId, getParentMap(story), call.nodeId, MaxNodes)
           = story.startNodeId
    /\ call.request.choice.prediction = "good"
    /\ ScoresOf(call.nodeId).scores # ZeroScores
    /\ ScoresOf(currentNodeId).scores.good = ScoresOf(call.nodeId).scores.good + 1

---------------------------------------------------------------------------
(* C10.  Unreachable-target scoring: when the chain of recorded parents    *)
(* from the target ends at a node other than the start node,               *)
(* calculatePathScores returns good = bad = mixed = 0.                     *)
C10_UnreachableTargetZero ==
    call.fn = "calculatePathScores" =>
        LET end == ChainEnd(story.startNodeId, getParentMap(story),
                            call.targetNodeId, MaxNodes)
        IN (end # NULL /\ end # story.startNodeId) =>
              /\ call.result.terminated
              /\ call.result.scores = ZeroScores

\* a target below an orphan, reached from it by a choice tagged mixed, in a story
\* whose start node has a choice tagged good
C10_Witness ==
    /\ call.fn = "calculatePathScores"
    /\ call.result.terminated
    /\ Len(call.result.path) = 2
    /\ call.result.path[1] # story.startNodeId
    /\ call.result.scores = ZeroScores
    /\ sumPath(story.nodes, call.result.path, 1, ZeroScores) = [good |-> 0, bad |-> 0, mixed |-> 1]
    /\ \E i \in DOMAIN story.nodes[story.startNodeId].choices :
         story.nodes[story.startNodeId].choices[i].prediction = "good"

---------------------------------------------------------------------------
(* C11.  Ending enforcement at the request: a request for new content by   *)
(* handleNavigate, handleRegenerateNode or handleAutoCompleteStory asks    *)
(* for an ending when a count of the scores it is made with has reached    *)
(* its threshold in endingConditions, and for a scene with choices when    *)
(* every count is below its threshold.                                     *)

C11_EndingEnforcement ==
    request.kind \in {"navigate", "regenerateNode", "autoComplete"} =>
        ((request.endingType # "none") <=>
            \E cat \in {"good", "bad", "mixed"} :
                request.newScores[cat] >= request.endingConditions[cat])

\* the auto-completion asks for the mixed ending after two mixed choices,
\* with the good and bad counts below their thresholds
C11_Witness ==
    /\ request.kind = "autoComplete"
    /\ request.endingType = "mixed"
    /\ request.newScores = [good |-> 0, bad |-> 0, mixed |-> 2]
    /\ request.endingConditions.mixed = 2

---------------------------------------------------------------------------
(* components/ExportScreen.tsx and the ExportScreen of components/SetupScreen.tsx:
   the text splitters.  A text is a sequence of characters. *)

\* 1100 in ExportScreen.tsx, scaled to the texts of the model
MAX_CHARS_PER_PAGE == 5
\* 110 and 250 in SetupScreen.tsx, scaled to the texts of the model
MAX_WORDS_ILLUSTRATED == 2
MAX_WORDS_NO_ILLUSTRATION == 3

MaxTextLen == 8
MaxLongTextLen == 11
MaxSplitLoop == 12
\* a letter, the space, and the line feed as a whitespace that is not a space
Chars == {"a", " ", "\n"}
Whitespace == {" ", "\n"}
\* every text of at most MaxTextLen characters, and the texts of letters and
\* spaces of at most MaxLongTextLen characters, long enough for three chunks
Texts ==
    UNION {[1..n -> Chars] : n \in 0..MaxTextLen}
      \cup UNION {[1..n -> {"a", " "}] : n \in 0..MaxLongTextLen}

Max(S) == CHOOSE x \in S : \A y \in S : y <= x

\* String.prototype.lastIndexOf(ch, fromIndex): a 0-based index, or -1
lastIndexOf(text, ch, fromIndex) ==
    LET hits == {i \in 0..(Len(text) - 1) : i <= fromIndex /\ text[i + 1] = ch}
    IN IF hits = {} THEN -1 ELSE Max(hits)

\* String.prototype.indexOf(ch): a 0-based index, or -1
indexOf(text, ch) ==
    LET hits == {i \in 0..(Len(text) - 1) : text[i + 1] = ch}
    IN IF hits = {} THEN -1 ELSE CHOOSE i \in hits : \A j \in hits : i <= j

\* String.prototype.substring(start, end), the indexes 0-based and clamped
substring(text, start, end) ==
    LET Clamp(i) == IF i < 0 THEN 0 ELSE IF i > Len(text) THEN Len(text) ELSE i
        e == Clamp(end)
        b == IF Clamp(start) > e THEN e ELSE Clamp(start)
    IN SubSeq(text, b + 1, e)

RECURSIVE trimStart(_)
trimStart(text) ==
    IF text # <<>> /\ Head(text) \in Whitespace THEN trimStart(Tail(text)) ELSE text

RECURSIVE trimEnd(_)
trimEnd(text) ==
    IF text # <<>> /\ text[Len(text)] \in Whitespace
    THEN trimEnd(SubSeq(text, 1, Len(text) - 1))
    ELSE text

\* String.prototype.trim()
trim(text) == trimEnd(trimStart(text))

\* mutant: the split point is where lastIndexOf found the space, or did not
RECURSIVE splitLoop_NoHardCut(_, _, _, _)
splitLoop_NoHardCut(remainingText, chunks, lengths, fuel) ==
    IF Len(remainingText) = 0
    THEN [chunks |-> chunks, lengths |-> lengths, terminated |-> TRUE]
    ELSE IF fuel = 0
    THEN [chunks |-> chunks, lengths |-> lengths, terminated |-> FALSE]
    ELSE IF Len(remainingText) <= MAX_CHARS_PER_PAGE
    THEN [chunks |-> Append(chunks, remainingText),
          lengths |-> Append(lengths, Len(remainingText)), terminated |-> TRUE]
    ELSE LET splitPoint == lastIndexOf(remainingText, " ", MAX_CHARS_PER_PAGE)
         IN splitLoop_NoHardCut(trim(substring(remainingText, splitPoint, Len(remainingText))),
                                Append(chunks, substring(remainingText, 0, splitPoint)),
                                Append(lengths, Len(remainingText)), fuel - 1)

\* the while loop of splitTextIntoChunks; found < MAX_CHARS_PER_PAGE * 0.8 is
\* written in whole numbers.  lengths keeps remainingText.length as it is at the
\* head of each iteration, fuel counts the iterations still allowed.
RECURSIVE splitLoop(_, _, _, _)
splitLoop(remainingText, chunks, lengths, fuel) ==
    IF Len(remainingText) = 0
    THEN [chunks |-> chunks, lengths |-> lengths, terminated |-> TRUE]
    ELSE IF fuel = 0
    THEN [chunks |-> chunks, lengths |-> lengths, terminated |-> FALSE]
    ELSE IF Len(remainingText) <= MAX_CHARS_PER_PAGE
    THEN [chunks |-> Append(chunks, remainingText),
          lengths |-> Append(lengths, Len(remainingText)), terminated |-> TRUE]
    ELSE LET found == lastIndexOf(remainingText, " ", MAX_CHARS_PER_PAGE)
             splitPoint == IF found = -1 \/ found * 5 < MAX_CHARS_PER_PAGE * 4
                           THEN MAX_CHARS_PER_PAGE
                           ELSE found
         IN splitLoop(trim(substring(remainingText, splitPoint, Len(remainingText))),
                      Append(chunks, substring(remainingText, 0, splitPoint)),
                      Append(lengths, Len(remainingText)), fuel - 1)

\* splitTextIntoChunks with what its loop went through
splitTextIntoChunksRun(text) ==
    IF Len(text) <= MAX_CHARS_PER_PAGE
    THEN [chunks |-> <<text>>, lengths |-> <<>>, terminated |-> TRUE]
    ELSE splitLoop(text, <<>>, <<>>, MaxSplitLoop)

splitTextIntoChunks(text) == splitTextIntoChunksRun(text).chunks

\* String.prototype.split(' '): the words between the separators, empty ones too
RECURSIVE split(_, _)
split(text, sep) ==
    LET i == indexOf(text, sep)
    IN IF i = -1 THEN <<text>>
       ELSE <<substring(text, 0, i)>> \o split(substring(text, i + 1, Len(text)), sep)

\* Array.prototype.join(' ')
RECURSIVE join(_, _)
join(words, sep) ==
    IF words = <<>> THEN <<>>
    ELSE IF Len(words) = 1 THEN words[1]
    ELSE words[1] \o <<sep>> \o join(Tail(words), sep)

\* the for loop of splitTextIntoChunksByWordCount and the push that follows it
RECURSIVE wordLoop(_, _, _, _)
wordLoop(words, currentChunkWords, chunks, wordLimit) ==
    IF words = <<>>
    THEN IF Len(currentChunkWords) > 0
         THEN Append(chunks, join(currentChunkWords, " "))
         ELSE chunks
    ELSE LET pushed == Append(currentChunkWords, Head(words))
         IN IF Len(pushed) >= wordLimit
            THEN wordLoop(Tail(words), <<>>, Append(chunks, join(pushed, " ")), wordLimit)
            ELSE wordLoop(Tail(words), pushed, chunks, wordLimit)

splitTextIntoChunksByWordCount(text, wordLimit) ==
    LET words == split(text, " ")
    IN IF Len(words) <= wordLimit THEN <<text>>
       ELSE wordLoop(words, <<>>, <<>>, wordLimit)

wordLimitOf(node) ==
    IF node.illustrationUrl # NULL THEN MAX_WORDS_ILLUSTRATED ELSE MAX_WORDS_NO_ILLUSTRATION

\* the chunks of a node's dialogue, by the screen that is built
dialogueChunksOf(node, screen) ==
    IF screen = "ExportScreen"
    THEN splitTextIntoChunks(node.dialogue)
    ELSE splitTextIntoChunksByWordCount(node.dialogue, wordLimitOf(node))

---------------------------------------------------------------------------
(* The splitters applied to one node's text: every text of at most MaxTextLen
   characters, with and without an illustration *)

TextNode(text, illustrationUrl) ==
    [id |-> 1, dialogue |-> text, illustrationUrl |-> illustrationUrl, choices |-> <<>>]

InitSplit ==
    /\ \E text \in Texts, illustrationUrl \in {NULL, 1} :
         story = [nodes |-> [n \in {1} |-> TextNode(text, illustrationUrl)],
                  keys |-> <<1>>, startNodeId |-> 1, endNodeIds |-> <<>>,
                  endingConditions |-> EndingConditions]
    /\ InitRest

ApplySplitTextIntoChunks ==
    /\ call' = [fn |-> "splitTextIntoChunks",
                text |-> story.nodes[1].dialogue,
                result |-> dialogueChunksOf(story.nodes[1], "ExportScreen"),
                run |-> splitTextIntoChunksRun(story.nodes[1].dialogue)]
    /\ UNCHANGED <<gamePhase, story, currentNodeId, pathScores, loading, modalConfig,
                   request, edits, hung, pages, exportScreen>>

ApplySplitTextIntoChunksByWordCount ==
    /\ call' = [fn |-> "splitTextIntoChunksByWordCount",
                text |-> story.nodes[1].dialogue,
                wordLimit |-> wordLimitOf(story.nodes[1]),
                result |-> dialogueChunksOf(story.nodes[1], "SetupScreen")]
    /\ UNCHANGED <<gamePhase, story, currentNodeId, pathScores, loading, modalConfig,
                   request, edits, hung, pages, exportScreen>>

NextSplit ==
    \/ ApplySplitTextIntoChunks
    \/ ApplySplitTextIntoChunksByWordCount

SpecSplit == InitSplit /\ [][NextSplit]_vars

---------------------------------------------------------------------------
(* components/ExportScreen.tsx and the ExportScreen of components/SetupScreen.tsx:
   the layout of the pages, the page numbers shown for the choices, the shuffle *)

CoverPage == [type |-> "cover"]
BackCoverPage == [type |-> "back_cover"]

logicalPageMap(s) == generatePageMap(s.nodes, s.keys, s.startNodeId).pageMap

\* mutant: the entries in the order of the ids
sortedNodeEntries_ById(pageMap) ==
    [n \in 1..Cardinality(DOMAIN pageMap) |->
        CHOOSE nodeId \in DOMAIN pageMap :
            Cardinality({other \in DOMAIN pageMap : other < nodeId}) = n - 1]

\* Array.from(logicalPageMap.entries()).sort(by page number): the node ids
sortedNodeEntries(pageMap) ==
    [n \in 1..Cardinality(DOMAIN pageMap) |->
        CHOOSE nodeId \in DOMAIN pageMap :
            Cardinality({other \in DOMAIN pageMap : pageMap[other] < pageMap[nodeId]}) = n - 1]

\* dialogueChunks.forEach: one page for each chunk of a node
chunkPages(node, nodeId, dialogueChunks) ==
    [index \in 1..Len(dialogueChunks) |->
        [type |-> "node", node |-> node, originalId |-> nodeId,
         dialogueChunk |-> dialogueChunks[index],
         isFirstChunk |-> index = 1,
         isLastChunk |-> index = Len(dialogueChunks)]]

RECURSIVE nodePages(_, _, _)
nodePages(s, entries, screen) ==
    IF entries = <<>> THEN <<>>
    ELSE LET nodeId == Head(entries)
         IN (IF nodeId \in DOMAIN s.nodes
             THEN chunkPages(s.nodes[nodeId], nodeId,
                             dialogueChunksOf(s.nodes[nodeId], screen))
             ELSE <<>>)
            \o nodePages(s, Tail(entries), screen)

tempPages(s, screen) ==
    <<CoverPage, BackCoverPage>> \o nodePages(s, sortedNodeEntries(logicalPageMap(s)), screen)

\* the markers are text put before and after the chunk; the decorated chunk is
\* kept as its three parts, NULL for a marker that is not there.  index is the
\* 0-based index of the map callback.
finalPagesWithContinuations(laidOut) ==
    [position \in 1..Len(laidOut) |->
        LET page == laidOut[position]
            index == position - 1
        IN IF page.type = "node"
           THEN [page EXCEPT !.dialogueChunk =
                    [continuedFrom |-> IF ~page.isFirstChunk THEN index ELSE NULL,
                     chunk |-> page.dialogueChunk,
                     continuedOn |-> IF ~page.isLastChunk THEN index + 2 ELSE NULL]]
           ELSE page]

\* ExportScreen.tsx: the map from the pages as they are now
physicalPageMap(pgs) ==
    LET firsts == {i \in DOMAIN pgs : pgs[i].type = "node" /\ pgs[i].isFirstChunk}
    IN [nodeId \in {pgs[i].originalId : i \in firsts} |->
          Max({i \in firsts : pgs[i].originalId = nodeId})]

\* SetupScreen.tsx: the map from a layout of the story, made anew inside useMemo
physicalPageMapOfStory(s) == physicalPageMap(tempPages(s, "SetupScreen"))

\* physicalPageMap.get(choice.nextNodeId || '') || '???'
turnToPage(choice) ==
    LET map == IF exportScreen = "ExportScreen"
               THEN physicalPageMap(pages)
               ELSE physicalPageMapOfStory(story)
    IN IF choice.nextNodeId # NULL /\ MapHas(map, choice.nextNodeId)
       THEN map[choice.nextNodeId]
       ELSE "???"

\* the values Math.floor(Math.random() * (i + 1)) can take, for i = n - 1 down to 1
Draws(n) == {rnd \in [1..(n - 1) -> 0..(n - 1)] : \A i \in DOMAIN rnd : rnd[i] <= i}

Swap(array, i, j) == [array EXCEPT ![i + 1] = array[j + 1], ![j + 1] = array[i + 1]]

RECURSIVE shuffleLoop(_, _, _)
shuffleLoop(newArray, i, rnd) ==
    IF i > 0 THEN shuffleLoop(Swap(newArray, i, rnd[i]), i - 1, rnd) ELSE newArray

shuffleArray(array, rnd) == shuffleLoop(array, Len(array) - 1, rnd)

\* the keys of pageGroups, in the order the Map got them
RECURSIVE groupKeys(_, _)
groupKeys(contentPages, keys) ==
    IF contentPages = <<>> THEN keys
    ELSE LET p == Head(contentPages)
         IN groupKeys(Tail(contentPages),
                      IF p.type = "node" /\ ~Includes(keys, p.originalId)
                      THEN Append(keys, p.originalId)
                      ELSE keys)

pageGroup(contentPages, nodeId) ==
    LET OfNode(p) == p.type = "node" /\ p.originalId = nodeId
    IN SelectSeq(contentPages, OfNode)

\* Array.prototype.flat()
RECURSIVE flat(_)
flat(groups) == IF groups = <<>> THEN <<>> ELSE Head(groups) \o flat(Tail(groups))

\* mutant: the start node's pages put after the others
shuffled_StartLast(pgs, startNodeId, rnd) ==
    LET contentPages == SubSeq(pgs, 3, Len(pgs))
        NotStart(p) == p.originalId # startNodeId
    IN <<pgs[1], pgs[2]>> \o SelectSeq(contentPages, NotStart)
         \o pageGroup(contentPages, startNodeId)

\* mutant: the pages shuffled one by one, not group by group
shuffled_PageByPage(pgs, startNodeId, rnd) ==
    LET contentPages == SubSeq(pgs, 3, Len(pgs))
        startPageGroup == pageGroup(contentPages, startNodeId)
        NotStart(p) == p.originalId # startNodeId
        others == SelectSeq(contentPages, NotStart)
    IN <<pgs[1], pgs[2]>> \o startPageGroup
         \o shuffleArray(others, [i \in 1..(Len(others) - 1) |-> 0])

\* the pages handleShuffle sets, rnd the draws of shuffleArray
shuffled(pgs, startNodeId, rnd) ==
    LET contentPages == SubSeq(pgs, 3, Len(pgs))
        keys == groupKeys(contentPages, <<>>)
        startPageGroup == pageGroup(contentPages, startNodeId)
        NotStart(nodeId) == nodeId # startNodeId
        otherKeys == SelectSeq(keys, NotStart)
        otherGroups == [k \in DOMAIN otherKeys |-> pageGroup(contentPages, otherKeys[k])]
    IN <<pgs[1], pgs[2]>> \o startPageGroup \o flat(shuffleArray(otherGroups, rnd))

handleGoToExport ==
    /\ gamePhase = "play" /\ ~hung /\ modalConfig = NoModal
    /\ gamePhase' = "export"
    /\ pages' = finalPagesWithContinuations(tempPages(story, exportScreen))
    /\ UNCHANGED <<story, currentNodeId, pathScores, loading, modalConfig, request,
                   edits, hung, exportScreen>>

handleReturnToGame ==
    /\ gamePhase = "export"
    /\ gamePhase' = "play"
    /\ pages' = <<>>
    /\ UNCHANGED <<story, currentNodeId, pathScores, loading, modalConfig, request,
                   edits, hung, exportScreen>>

handleShuffle(rnd) ==
    /\ gamePhase = "export"
    /\ pages' = IF Len(pages) <= 3
                THEN pages
                ELSE IF pageGroup(SubSeq(pages, 3, Len(pages)), story.startNodeId) = <<>>
                THEN pages
                ELSE shuffled(pages, story.startNodeId, rnd)
    /\ UNCHANGED <<gamePhase, story, currentNodeId, pathScores, loading, modalConfig,
                   request, edits, hung, exportScreen>>

\* the draws for the groups that are not the start node's
ShuffleDraws ==
    LET keys == IF Len(pages) <= 2 THEN <<>>
                ELSE groupKeys(SubSeq(pages, 3, Len(pages)), <<>>)
        others == Cardinality(Range(keys) \ {story.startNodeId})
    IN IF others = 0 THEN Draws(1) ELSE Draws(others)

\* a text of one chunk, and one that every splitter cuts in two
Dialogues ==
    {<<"a">>,
     <<"a", " ", "a", " ", "a", " ", "a">>}

\* an imported story with a text and, or not, an illustration on every page
ExportStory(keys, start, lens, targets, dialogues, illustrated) ==
    LET s == GraphStory(keys, start, lens, targets, [sl \in Slots(lens) |-> "none"])
    IN [s EXCEPT !.nodes =
          [n \in DOMAIN s.nodes |->
             [s.nodes[n] EXCEPT !.dialogue = dialogues[n],
                                !.illustrationUrl = IF n \in illustrated THEN n ELSE NULL]]]

InitExport ==
    /\ \E present \in (SUBSET NodeIds) \ {{}} :
         \E keys \in {SortIds(k) : k \in Perms(present)}, start \in present,
            lens \in Shapes(present) :
           \E targets \in [Slots(lens) -> 0..MaxNodes],
              dialogues \in [present -> Dialogues],
              illustrated \in {{}, present} :
             story = ExportStory(keys, start, lens, targets, dialogues, illustrated)
    /\ gamePhase = "play"
    /\ currentNodeId = story.startNodeId
    /\ pathScores = ZeroScores
    /\ loading = FALSE
    /\ modalConfig = NoModal
    /\ request = NoRequest
    /\ edits = 0
    /\ hung = FALSE
    /\ pages = <<>>
    /\ exportScreen \in {"ExportScreen", "SetupScreen"}
    /\ call = NoCall

\* the handler called last, and for handleShuffle the pages it was called on
NextExport ==
    \/ handleGoToExport /\ call' = [fn |-> "handleGoToExport"]
    \/ handleReturnToGame /\ call' = [fn |-> "handleReturnToGame"]
    \/ \E rnd \in ShuffleDraws :
         handleShuffle(rnd) /\ call' = [fn |-> "handleShuffle", pages |-> pages]

SpecExport == InitExport /\ [][NextExport]_vars

---------------------------------------------------------------------------
(* C12. Cross-reference correctness: on the export screen, after layout and
   after any number of shuffles, the page number shown for every resolved
   choice is the 1-based index, in the pages as they are now, of the first-chunk
   page of the choice's target node. *)

IsFirstChunkOf(i, nodeId) ==
    /\ pages[i].type = "node"
    /\ pages[i].originalId = nodeId
    /\ pages[i].isFirstChunk

C12_CrossReference ==
    gamePhase = "export" =>
        \A i \in DOMAIN pages :
            pages[i].type = "node" =>
                \A c \in DOMAIN pages[i].node.choices :
                    LET choice == pages[i].node.choices[c]
                    IN (choice.nextNodeId # NULL /\ choice.nextNodeId \in DOMAIN story.nodes) =>
                           /\ turnToPage(choice) \in DOMAIN pages
                           /\ IsFirstChunkOf(turnToPage(choice), choice.nextNodeId)

---------------------------------------------------------------------------
(* C13. Pagination round trip: the chunks a splitter returns, concatenated in
   chunk order before any continuation marker is added, are the text again,
   character for character. *)

RECURSIVE Concat(_)
Concat(chunks) == IF chunks = <<>> THEN <<>> ELSE Head(chunks) \o Concat(Tail(chunks))

C13_RoundTrip ==
    call.fn \in {"splitTextIntoChunks", "splitTextIntoChunksByWordCount"} =>
        Concat(call.result) = call.text

---------------------------------------------------------------------------
(* C14. Shuffle pins the entry point: after any shuffle, page 1 is the cover,
   page 2 is the back cover, and the pages that follow immediately are all the
   pages of the start node, in their original chunk order. *)

\* the pages as the layout made them
LaidOut == finalPagesWithContinuations(tempPages(story, exportScreen))

C14_ShufflePinsStart ==
    call.fn = "handleShuffle" =>
        LET startPages == pageGroup(LaidOut, story.startNodeId)
        IN /\ Len(pages) >= 2 + Len(startPages)
           /\ pages[1] = CoverPage
           /\ pages[2] = BackCoverPage
           /\ SubSeq(pages, 3, 2 + Len(startPages)) = startPages
           /\ pageGroup(pages, story.startNodeId) = startPages

C14_Witness ==
    /\ call.fn = "handleShuffle"
    /\ pages # call.pages
    /\ Len(pageGroup(pages, story.startNodeId)) >= 2

---------------------------------------------------------------------------
(* C15. Shuffle is a group-preserving permutation: after any number of
   shuffles the pages are the same pages as before, none lost and none
   duplicated, the pages of one node are contiguous, and the chunks of each node
   keep their original relative order. *)

Count(p, seq) == Cardinality({i \in DOMAIN seq : seq[i] = p})

C15_GroupPreservingPermutation ==
    gamePhase = "export" =>
        LET laid == LaidOut
        IN /\ Len(pages) = Len(laid)
           /\ \A i \in DOMAIN pages : Count(pages[i], pages) = Count(pages[i], laid)
           /\ \A i, j \in DOMAIN pages :
                 (/\ i < j
                  /\ pages[i].type = "node" /\ pages[j].type = "node"
                  /\ pages[i].originalId = pages[j].originalId) =>
                     \A k \in i..j : /\ pages[k].type = "node"
                                     /\ pages[k].originalId = pages[i].originalId
           /\ \A nodeId \in DOMAIN story.nodes :
                 pageGroup(pages, nodeId) = pageGroup(laid, nodeId)

C15_Witness ==
    /\ call.fn = "handleShuffle"
    /\ pages # LaidOut
    /\ \E nodeId \in DOMAIN story.nodes :
          nodeId # story.startNodeId /\ Len(pageGroup(pages, nodeId)) >= 2

---------------------------------------------------------------------------
(* C18. Continuation markers follow final positions: after layout and after
   any shuffle, every non-final chunk page at 1-based index p carries the marker
   "Continued on page p+1" and every non-first chunk page at index p carries
   "Continued from page p-1", and the page at p+1 (at p-1) is the next (the
   previous) chunk of the same node. *)

C18_MarkersFollowPositions ==
    gamePhase = "export" =>
        \A p \in DOMAIN pages :
            pages[p].type = "node" =>
                /\ ~pages[p].isLastChunk =>
                      /\ pages[p].dialogueChunk.continuedOn = p + 1
                      /\ p + 1 \in DOMAIN pages
                      /\ pages[p + 1].type = "node"
                      /\ pages[p + 1].originalId = pages[p].originalId
                /\ ~pages[p].isFirstChunk =>
                      /\ pages[p].dialogueChunk.continuedFrom = p - 1
                      /\ pages[p - 1].type = "node"
                      /\ pages[p - 1].originalId = pages[p].originalId

---------------------------------------------------------------------------
(* C16. At most one request per pending edge: while a producer call started by
   navigation is outstanding the page is loading, no step starts another
   navigation or regeneration request, and the call ends once, by its result
   or by its failure; the nodes of the story change only by the one node its
   result adds. *)

C16_OneRequestPerEdge ==
    [][request.kind = "navigate" =>
          /\ loading
          /\ \/ /\ request' = request
                /\ DOMAIN story'.nodes = DOMAIN story.nodes
             \/ /\ request' = NoRequest
                /\ DOMAIN story.nodes \subseteq DOMAIN story'.nodes
                /\ Cardinality(DOMAIN story'.nodes \ DOMAIN story.nodes) <= 1]_vars

\* a navigation request is outstanding and the player has jumped to another page
C16_Witness ==
    /\ request.kind = "navigate"
    /\ loading
    /\ currentNodeId # request.fromNodeId
    /\ \E j \in DOMAIN story.nodes[currentNodeId].choices :
          story.nodes[currentNodeId].choices[j].nextNodeId = NULL

---------------------------------------------------------------------------
(* C17. Atomic fold-in: the step that puts the producer's node into nodes also
   gives the originating choice nextNodeId = the new id and isChosen = true,
   and appends the new id to endNodeIds when the node has no choices; so under
   every interleaving with the edits allowed while loading, a new node is
   never in nodes without a choice of the originating node pointing to it. *)

C17_AtomicFoldIn ==
    [][request.kind = "navigate" =>
          \A newId \in DOMAIN story'.nodes \ DOMAIN story.nodes :
              /\ request.fromNodeId \in DOMAIN story'.nodes
              /\ \E j \in DOMAIN story'.nodes[request.fromNodeId].choices :
                    LET c == story'.nodes[request.fromNodeId].choices[j]
                    IN c.nextNodeId = newId /\ c.isChosen
              /\ story'.nodes[newId].choices = <<>> => Includes(story'.endNodeIds, newId)]_vars

---------------------------------------------------------------------------
(* generatePageMap applied to graphs of up to MaxBreadthNodes nodes, enough for
   two nodes next to the start node and a third one step further *)

MaxBreadthNodes == 4
MaxBreadthEdges == 3

InitBreadth ==
    /\ \E present \in {1..n : n \in 1..MaxBreadthNodes} :
         \E start \in present,
            lens \in {l \in [present -> 0..MaxChoices] : SumOver(l, present) <= MaxBreadthEdges} :
           \E targets \in [Slots(lens) -> {NULL} \cup present] :
             story = GraphStory([i \in 1..Cardinality(present) |-> i], start, lens, targets,
                                [sl \in Slots(lens) |-> "none"])
    /\ InitRest

NextBreadth == ApplyGeneratePageMap

SpecBreadth == InitBreadth /\ [][NextBreadth]_vars

---------------------------------------------------------------------------
(* C19. Breadth-first order: among the nodes reachable from the start node, a
   node at smaller distance (fewest resolved choices from the start node) gets
   a smaller page number than a node at larger distance, and two nodes first
   discovered from the same parent are numbered in the stored order of that
   parent's choices. *)

\* the least number of resolved choices from a node of S to node n, d for the
\* nodes of S; n is reachable from S
RECURSIVE Distance(_, _, _, _)
Distance(nodes, S, n, d) ==
    IF n \in S THEN d
    ELSE Distance(nodes, S \cup UNION {Successors(nodes, m) : m \in S}, n, d + 1)

DistanceFromStart(s, n) == Distance(s.nodes, {s.startNodeId}, n, 0)

\* the node the traversal discovers n from: of the reachable nodes with a
\* resolved choice to n, the one numbered first
DiscoveredFrom(s, pageMap, n) ==
    LET parents == {p \in Reachable(s) : HasEdge(s.nodes, p, n)}
    IN CHOOSE p \in parents : \A q \in parents : pageMap[p] <= pageMap[q]

\* the position of the first choice of node p that leads to n
FirstChoiceTo(s, p, n) ==
    CHOOSE j \in DOMAIN s.nodes[p].choices :
        /\ s.nodes[p].choices[j].nextNodeId = n
        /\ \A k \in 1..(j - 1) : s.nodes[p].choices[k].nextNodeId # n

C19_BreadthFirstOrder ==
    (call.fn = "generatePageMap" /\ story.startNodeId \in DOMAIN story.nodes) =>
        LET pageMap == call.result.pageMap
            reached == Reachable(story)
        IN /\ \A a, b \in reached :
                 DistanceFromStart(story, a) < DistanceFromStart(story, b) =>
                     pageMap[a] < pageMap[b]
           /\ \A a, b \in reached \ {story.startNodeId} :
                 (/\ a # b
                  /\ DiscoveredFrom(story, pageMap, a) = DiscoveredFrom(story, pageMap, b)
                  /\ FirstChoiceTo(story, DiscoveredFrom(story, pageMap, a), a)
                       < FirstChoiceTo(story, DiscoveredFrom(story, pageMap, a), b)) =>
                     pageMap[a] < pageMap[b]

\* the start node leads to b and then c, with c < b as ids, and b leads on to a:
\* b and c at distance 1 in the order of the choices, a at distance 2
C19_Witness ==
    /\ call.fn = "generatePageMap"
    /\ Cardinality(DOMAIN story.nodes) = 4
    /\ \E a, b, c \in Reachable(story) :
         /\ c < b
         /\ Len(story.nodes[story.startNodeId].choices) = 2
         /\ story.nodes[story.startNodeId].choices[1].nextNodeId = b
         /\ story.nodes[story.startNodeId].choices[2].nextNodeId = c
         /\ DistanceFromStart(story, a) = 2
         /\ HasEdge(story.nodes, b, a)
         /\ call.result.pageMap[b] = 2
         /\ call.result.pageMap[c] = 3
         /\ call.result.pageMap[a] = 4

---------------------------------------------------------------------------
(* getParentMap applied to every graph, its keys in every order *)

NextParents == ApplyGetParentMap

SpecParents == InitPages /\ [][NextParents]_vars

---------------------------------------------------------------------------
(* C20. Parent map content: getParentMap has an entry for exactly the ids that
   are the target of a resolved choice; every entry parentMap[c] = p names a
   node p with a resolved choice to c; and of several such nodes the entry is
   the one that comes last in the iteration order of nodes. *)

\* node p has a resolved choice whose target is the id c, a node or not
PointsTo(s, p, c) ==
    \E j \in DOMAIN s.nodes[p].choices : s.nodes[p].choices[j].nextNodeId = c

KeyPosition(s, p) == CHOOSE k \in DOMAIN s.keys : s.keys[k] = p

C20_ParentMapContent ==
    call.fn = "getParentMap" =>
        LET parentMap == call.result
        IN /\ DOMAIN parentMap =
                {c \in 1..MaxNodes : \E p \in DOMAIN story.nodes : PointsTo(story, p, c)}
           /\ \A c \in DOMAIN parentMap :
                 /\ parentMap[c] \in DOMAIN story.nodes
                 /\ PointsTo(story, parentMap[c], c)
                 /\ \A q \in DOMAIN story.nodes :
                       PointsTo(story, q, c) =>
                           KeyPosition(story, q) <= KeyPosition(story, parentMap[c])

\* two nodes lead to c; the one with the greater id comes first in the keys,
\* and the entry is the other one
C20_Witness ==
    /\ call.fn = "getParentMap"
    /\ \E c \in DOMAIN call.result, p, q \in DOMAIN story.nodes :
         /\ p < q
         /\ PointsTo(story, p, c) /\ PointsTo(story, q, c)
         /\ KeyPosition(story, q) < KeyPosition(story, p)
         /\ call.result[c] = p

---------------------------------------------------------------------------
(* C21. Chunk bounds: every chunk a splitter returns is non-empty and at most
   the limit in size; a text within the limit yields exactly one chunk, the
   text; and every boundary between two consecutive chunks falls on a
   whitespace of the text, except where the hard cut applies because there is
   no whitespace in the last fifth of the limit window. *)

\* how many characters at the head of text are whitespace
LeadingWhitespace(text) == Len(text) - Len(trimStart(text))

\* the 0-based indexes of the limit window in which lastIndexOf accepts a space
LastFifth == {i \in 0..MAX_CHARS_PER_PAGE : i * 5 >= MAX_CHARS_PER_PAGE * 4}

\* chunks are pieces of text from the 0-based index pos on, each boundary at a
\* character of seps or a hard cut with no character of seps in the last fifth,
\* the whitespace after a boundary and at the end of the text left out
RECURSIVE CutsOf(_, _, _, _)
CutsOf(text, chunks, pos, seps) ==
    LET rest == SubSeq(text, pos + 1, Len(text))
    IN IF chunks = <<>> THEN pos > 0 /\ trimEnd(rest) = <<>>
       ELSE LET c == Head(chunks)
                end == pos + Len(c)
            IN \/ /\ Tail(chunks) = <<>>
                  /\ c = IF pos = 0 THEN rest ELSE trimEnd(rest)
               \/ /\ end < Len(text)
                  /\ SubSeq(text, pos + 1, end) = c
                  /\ \/ text[end + 1] \in seps
                     \/ /\ Len(c) = MAX_CHARS_PER_PAGE
                        /\ \A i \in LastFifth :
                              pos + i + 1 <= Len(text) => text[pos + i + 1] \notin seps
                  /\ CutsOf(text, Tail(chunks),
                            end + LeadingWhitespace(SubSeq(text, end + 1, Len(text))),
                            seps)

WordsOf(text) == Len(split(text, " "))

SizesAndSingleChunk ==
    /\ call.fn = "splitTextIntoChunks" =>
          /\ \A k \in DOMAIN call.result : Len(call.result[k]) <= MAX_CHARS_PER_PAGE
          /\ Len(call.text) <= MAX_CHARS_PER_PAGE => call.result = <<call.text>>
    /\ call.fn = "splitTextIntoChunksByWordCount" =>
          /\ \A k \in DOMAIN call.result : WordsOf(call.result[k]) <= call.wordLimit
          /\ WordsOf(call.text) <= call.wordLimit => call.result = <<call.text>>
          /\ join(call.result, " ") = call.text

C21_ChunkBounds ==
    /\ SizesAndSingleChunk
    /\ call.fn \in {"splitTextIntoChunks", "splitTextIntoChunksByWordCount"} =>
          \A k \in DOMAIN call.result : call.result[k] # <<>>
    /\ call.fn = "splitTextIntoChunks" => CutsOf(call.text, call.result, 0, Whitespace)

\* what the splitters keep: the sizes, non-empty chunks of splitTextIntoChunks
\* for a text that is not empty, and boundaries at spaces
ChunkBoundsAtSpaces ==
    /\ SizesAndSingleChunk
    /\ (call.fn = "splitTextIntoChunks" /\ call.text # <<>>) =>
          \A k \in DOMAIN call.result : call.result[k] # <<>>
    /\ call.fn = "splitTextIntoChunks" => CutsOf(call.text, call.result, 0, {" "})

---------------------------------------------------------------------------
(* C22. The text splitter terminates and makes progress: every iteration of
   the loop of splitTextIntoChunks finds the remaining text strictly shorter
   than the iteration before, also for a text with no whitespace at all or of
   whitespace only, and the result is never an empty list of chunks. *)

C22_SplitterProgress ==
    /\ call.fn = "splitTextIntoChunks" =>
          /\ call.run.terminated
          /\ \A k \in DOMAIN call.run.lengths :
                k > 1 => call.run.lengths[k] < call.run.lengths[k - 1]
          /\ call.result # <<>>
    /\ call.fn = "splitTextIntoChunksByWordCount" => call.result # <<>>

\* a text without whitespace that takes three iterations
C22_Witness ==
    /\ call.fn = "splitTextIntoChunks"
    /\ \A i \in DOMAIN call.text : call.text[i] = "a"
    /\ Len(call.run.lengths) = 3
    /\ call.run.terminated

\* a text of whitespace only that the loop goes through
C22_WitnessWhitespace ==
    /\ call.fn = "splitTextIntoChunks"
    /\ \A i \in DOMAIN call.text : call.text[i] \in Whitespace
    /\ Len(call.run.lengths) >= 1
    /\ call.run.terminated

---------------------------------------------------------------------------
(* C23. Physical sequence assembly: the laid-out pages are the cover, the back
   cover, then for each node in ascending logical page number its chunk pages
   in chunk order, isFirstChunk true exactly on a node's first page and
   isLastChunk exactly on its last; so the 1-based index of a node's first
   chunk is 3 plus the number of chunks of all nodes with a smaller logical
   page number, and the start node begins on page 3. *)

ChunkCount(nodeId) == Len(dialogueChunksOf(story.nodes[nodeId], exportScreen))

\* the number of chunk pages of the nodes numbered before nodeId
ChunksBefore(pageMap, nodeId) ==
    LET before == {m \in DOMAIN pageMap : pageMap[m] < pageMap[nodeId]}
    IN SumOver([m \in before |-> ChunkCount(m)], before)

C23_PhysicalSequence ==
    call.fn = "handleGoToExport" =>
        LET pageMap == logicalPageMap(story)
        IN /\ Len(pages) = 2 + SumOver([m \in DOMAIN pageMap |-> ChunkCount(m)], DOMAIN pageMap)
           /\ pages[1] = CoverPage
           /\ pages[2] = BackCoverPage
           /\ \A nodeId \in DOMAIN pageMap :
                 LET chunks == dialogueChunksOf(story.nodes[nodeId], exportScreen)
                     first == 3 + ChunksBefore(pageMap, nodeId)
                 IN /\ \A k \in DOMAIN chunks :
                          LET page == pages[first + k - 1]
                          IN /\ page.type = "node"
                             /\ page.originalId = nodeId
                             /\ page.node = story.nodes[nodeId]
                             /\ page.dialogueChunk.chunk = chunks[k]
                             /\ page.isFirstChunk <=> k = 1
                             /\ page.isLastChunk <=> k = Len(chunks)
                    /\ physicalPageMap(pages)[nodeId] = first
           /\ story.startNodeId \in DOMAIN story.nodes =>
                 IsFirstChunkOf(3, story.startNodeId)

\* three nodes of two chunks each, the node of the least id numbered last
C23_Witness ==
    /\ call.fn = "handleGoToExport"
    /\ Len(pages) = 8
    /\ pages[7].type = "node"
    /\ pages[7].originalId = 1
    /\ pages[7].isFirstChunk
    /\ pages[5].originalId = 3

---------------------------------------------------------------------------
(* C24. After handleDeleteNode, endNodeIds is the endNodeIds of before with
   exactly the deleted ids removed: no deleted id remains, every surviving id
   that was flagged as an ending is still flagged, and their order is kept. *)

C24_EndNodeIdsFrame ==
    Deleted =>
        LET Survives(id) == id \notin RemovedIds
        IN story.endNodeIds = SelectSeq(call.story.endNodeIds, Survives)

\* three endings, the one in the middle deleted
C24_Witness ==
    /\ Deleted
    /\ Len(call.story.endNodeIds) = 3
    /\ call.story.endNodeIds[2] \in RemovedIds
    /\ story.endNodeIds = <<call.story.endNodeIds[1], call.story.endNodeIds[3]>>

---------------------------------------------------------------------------
(* Stories built in the application: SetupScreen handleStart hands a story *)
(* of one start node to handleStartGame, and the handlers of the play      *)
(* phase do the rest; no story is imported.                                *)

NextBuilt ==
    \/ \E initialStory \in FreshStories : handleStartGame(initialStory) /\ UNCHANGED <<call, pages, exportScreen>>
    \/ \E i \in 1..MaxChoices : handleNavigate(i) /\ UNCHANGED <<call, pages, exportScreen>>
    \/ \E newNode \in ProducedNodes, newId \in NodeIds : handleNavigateResolved(newNode, newId) /\ UNCHANGED <<call, pages, exportScreen>>
    \/ handleRequestRejected /\ UNCHANGED <<call, pages, exportScreen>>
    \/ \E i \in 1..MaxChoices : handleChoiceJump(i) /\ UNCHANGED <<call, pages, exportScreen>>
    \/ \E nodeId \in NodeIds : handleJumpToNode(nodeId) /\ UNCHANGED <<call, pages, exportScreen>>
    \/ \E i \in 1..MaxChoices : handleRegenerateNode(i) /\ UNCHANGED <<call, pages, exportScreen>>
    \/ \E regeneratedNodeData \in ProducedNodes : handleRegenerateNodeResolved(regeneratedNodeData) /\ UNCHANGED <<call, pages, exportScreen>>
    \/ handleRegenerateChoices /\ UNCHANGED <<call, pages, exportScreen>>
    \/ \E newChoices \in ProducedChoiceSeqs : handleRegenerateChoicesResolved(newChoices) /\ UNCHANGED <<call, pages, exportScreen>>
    \/ handleAddChoice /\ UNCHANGED <<call, pages, exportScreen>>
    \/ \E choiceId \in 1..(MaxChoices + 1) : handleRemoveChoice(choiceId) /\ UNCHANGED <<call, pages, exportScreen>>
    \/ handleRequestMarkAsEnding /\ UNCHANGED <<call, pages, exportScreen>>
    \/ handleRequestDeleteNode(currentNodeId) /\ UNCHANGED <<call, pages, exportScreen>>
    \/ ModalConfirm /\ UNCHANGED <<call, pages, exportScreen>>
    \/ ModalClose /\ UNCHANGED <<call, pages, exportScreen>>

SpecBuilt == Init /\ [][NextBuilt]_vars

\* the resolved choices that point to node n, as pairs of node id and position
Incoming(nodes, n) ==
    {e \in (DOMAIN nodes) \X (1..MaxChoices) :
        /\ e[2] \in DOMAIN nodes[e[1]].choices
        /\ nodes[e[1]].choices[e[2]].nextNodeId = n}

(* C25. A story built only through the application's own operations is a
   forest: every node has at most one incoming resolved choice and the start
   node has none, so it has no cycle and no convergent edge. *)

C25_BuiltStoriesAreForests ==
    gamePhase = "play" =>
        /\ \A n \in DOMAIN story.nodes : Cardinality(Incoming(story.nodes, n)) <= 1
        /\ Incoming(story.nodes, story.startNodeId) = {}
        /\ \A n \in DOMAIN story.nodes : n \notin ReachableFrom(story.nodes, Successors(story.nodes, n))

\* a story of three nodes, one below the other, after a fold-in below a node
\* that is not the start node
C25_Witness ==
    /\ gamePhase = "play"
    /\ Cardinality(DOMAIN story.nodes) = 3
    /\ \E a, b \in DOMAIN story.nodes :
         /\ a # story.startNodeId /\ b # story.startNodeId
         /\ HasEdge(story.nodes, story.startNodeId, a)
         /\ HasEdge(story.nodes, a, b)

---------------------------------------------------------------------------
(* C26. In the play phase, currentNodeId is a key of story.nodes after every
   completed operation, a deletion that takes the node shown and a navigation
   result that arrives after a jump included. *)

C26_CurrentNodeExists ==
    gamePhase = "play" => currentNodeId \in DOMAIN story.nodes

---------------------------------------------------------------------------
(* C27. After every completed operation of the play phase, pathScores equals
   calculatePathScores(story, currentNodeId, getParentMap(story)): the scores
   handed to the producer on the next navigation are those of the node the
   choice is taken from. *)

C27_TrackedScoresMatchPath ==
    (gamePhase = "play" /\ ~hung /\ currentNodeId \in DOMAIN story.nodes) =>
        LET r == recalculateScores(currentNodeId, story)
        IN r.terminated => pathScores = r.scores

---------------------------------------------------------------------------
(* Failed requests: the catch and finally blocks of handleNavigate,        *)
(* handleRegenerateNode and handleRegenerateChoices.  call records the     *)
(* state the request was made in, whether a handler that is not disabled   *)
(* while loading ran before the answer, and the state the failure found.   *)

Shown == [story |-> story, currentNodeId |-> currentNodeId, pathScores |-> pathScores]

Requested(fn) == call' = [fn |-> fn, before |-> Shown, edited |-> FALSE]

\* a handler that runs while a request is pending, or between requests
WhilePending ==
    call' = IF call.fn \in {"handleNavigate", "handleRegenerateNode", "handleRegenerateChoices"}
            THEN [call EXCEPT !.edited = TRUE]
            ELSE NoCall

Rejected ==
    call' = [fn |-> "handleRequestRejected", of |-> call.fn, before |-> call.before,
             edited |-> call.edited, found |-> Shown]

NextFailure ==
    \/ \E initialStory \in FreshStories \cup ImportedStories : handleStartGame(initialStory) /\ call' = NoCall /\ UNCHANGED <<pages, exportScreen>>
    \/ \E i \in 1..MaxChoices : handleNavigate(i) /\ Requested("handleNavigate") /\ UNCHANGED <<pages, exportScreen>>
    \/ \E newNode \in ProducedNodes, newId \in NodeIds : handleNavigateResolved(newNode, newId) /\ call' = NoCall /\ UNCHANGED <<pages, exportScreen>>
    \/ handleRequestRejected /\ Rejected /\ UNCHANGED <<pages, exportScreen>>
    \/ \E i \in 1..MaxChoices : handleChoiceJump(i) /\ call' = NoCall /\ UNCHANGED <<pages, exportScreen>>
    \/ \E nodeId \in NodeIds : handleJumpToNode(nodeId) /\ WhilePending /\ UNCHANGED <<pages, exportScreen>>
    \/ \E i \in 1..MaxChoices : handleRegenerateNode(i) /\ Requested("handleRegenerateNode") /\ UNCHANGED <<pages, exportScreen>>
    \/ \E regeneratedNodeData \in ProducedNodes : handleRegenerateNodeResolved(regeneratedNodeData) /\ call' = NoCall /\ UNCHANGED <<pages, exportScreen>>
    \/ handleRegenerateChoices /\ Requested("handleRegenerateChoices") /\ UNCHANGED <<pages, exportScreen>>
    \/ \E newChoices \in ProducedChoiceSeqs : handleRegenerateChoicesResolved(newChoices) /\ call' = NoCall /\ UNCHANGED <<pages, exportScreen>>
    \/ handleAddChoice /\ call' = NoCall /\ UNCHANGED <<pages, exportScreen>>
    \/ \E choiceId \in 1..(MaxChoices + 1) : handleRemoveChoice(choiceId) /\ WhilePending /\ UNCHANGED <<pages, exportScreen>>

SpecFailure == Init /\ [][NextFailure]_vars

Failed == call.fn = "handleRequestRejected"

(* C28, as stated.  When the producer fails during handleNavigate,
   handleRegenerateNode or handleRegenerateChoices, story, currentNodeId and
   pathScores are exactly as before the request and loading is cleared. *)

C28_WitnessEdited ==
    /\ Failed /\ call.of = "handleRegenerateNode" /\ call.edited
    /\ currentNodeId # call.before.currentNodeId
    /\ story = call.before.story

---------------------------------------------------------------------------
(* Auto-completion with a producer that never fails, tags every choice it  *)
(* returns as good, bad or mixed, and returns no choices when the request  *)
(* asks for an ending.  The loop runs on once started: each await resumes  *)
(* when the producer answers, hence the weak fairness of the steps.        *)

\* the answers of such a producer: no choice, one choice tagged good, one
\* tagged mixed, or two choices tagged bad and good
TaggedPredictions == {<<>>, <<"good">>, <<"mixed">>, <<"bad", "good">>}

TaggedNodes ==
    {[dialogue |-> 0, choices |-> [i \in DOMAIN f |-> ProducedChoice(i, f[i])]] :
        f \in TaggedPredictions}

\* the longest path below the root on which no count reaches its threshold,
\* and one more choice
AutoDepth == 3 * MaxThreshold - 2

\* node_${Date.now()}_${i}: as many ids as a story of that depth has nodes
AutoNodes == 2 ^ (AutoDepth + 1)

autoCompleteAnswered(newNodeData) ==
    /\ request.kind = "autoComplete"
    /\ request.endingType # "none" => newNodeData.choices = <<>>
    /\ Cardinality(DOMAIN request.storyInProgress.nodes) < AutoNodes
    /\ autoCompleteFold(newNodeData, Cardinality(DOMAIN request.storyInProgress.nodes) + 1)
    /\ UNCHANGED <<modalConfig, edits, hung>>

NextAuto ==
    \/ \E initialNodeData \in TaggedNodes, endingConditions \in ThresholdSets :
         handleAutoCompleteStory(initialNodeData, endingConditions) /\ UNCHANGED <<call, pages, exportScreen>>
    \/ \E newNodeData \in TaggedNodes : autoCompleteAnswered(newNodeData) /\ UNCHANGED <<call, pages, exportScreen>>

SpecAuto == Init /\ [][NextAuto]_vars /\ WF_vars(NextAuto)

\* the story the loop works on, and the story it loaded
AutoStory == IF request.kind = "autoComplete" THEN request.storyInProgress ELSE story

AllResolved(s) ==
    \A n \in DOMAIN s.nodes : \A j \in DOMAIN s.nodes[n].choices :
        s.nodes[n].choices[j].nextNodeId \in DOMAIN s.nodes

AutoFinished ==
    /\ gamePhase = "play" /\ request = NoRequest /\ ~loading
    /\ AllResolved(story)

DepthBound(s) ==
    \A n \in DOMAIN s.nodes :
        DistanceFromStart(s, n) <=
            s.endingConditions.good + s.endingConditions.bad + s.endingConditions.mixed - 2

(* C29. With a producer that never fails, tags every choice good, bad or
   mixed and returns no choices on a request for an ending, an auto-completion
   that has started finishes with every choice resolved, and no node it
   generates lies deeper than good + bad + mixed - 2 choices below the root. *)

C29_AutoCompleteFinishes ==
    /\ [](gamePhase = "play" \/ request.kind = "autoComplete" => DepthBound(AutoStory))
    /\ (request.kind = "autoComplete") ~> AutoFinished

\* a finished story with a node at the greatest depth the thresholds allow
C29_Witness ==
    /\ AutoFinished
    /\ Cardinality(DOMAIN story.nodes) >= 4
    /\ \E n \in DOMAIN story.nodes :
         DistanceFromStart(story, n) =
            story.endingConditions.good + story.endingConditions.bad
                + story.endingConditions.mixed - 2

\* with any producer (SpecRequest), a node is generated below that depth
DepthBoundedForAnyProducer ==
    request.kind = "autoComplete" => DepthBound(request.storyInProgress)

---------------------------------------------------------------------------
(* Auto-completion with a producer that may fail at any request: the catch *)
(* block of handleAutoCompleteStory loads what has been generated.         *)

NextPartial ==
    \/ \E initialNodeData \in ProducedNodes, endingConditions \in ThresholdSets :
         handleAutoCompleteStory(initialNodeData, endingConditions) /\ UNCHANGED <<call, pages, exportScreen>>
    \/ \E newNodeData \in ProducedNodes : autoCompleteResolved(newNodeData) /\ UNCHANGED <<call, pages, exportScreen>>
    \/ autoCompleteRejected /\ call' = [fn |-> "autoCompleteRejected"] /\ UNCHANGED <<pages, exportScreen>>

SpecPartial == Init /\ [][NextPartial]_vars

(* C30. When the producer fails in the middle of auto-completion, the partial
   story that is loaded is well formed: startNodeId is a key of nodes, every
   non-null nextNodeId is a key of nodes, every node other than the start node
   is the target of exactly one resolved choice, and every generated node
   without choices is in endNodeIds exactly once. *)

C30_PartialStoryWellFormed ==
    call.fn = "autoCompleteRejected" =>
        /\ gamePhase = "play" /\ ~loading /\ request = NoRequest
        /\ story.startNodeId \in DOMAIN story.nodes
        /\ \A n \in DOMAIN story.nodes : \A j \in DOMAIN story.nodes[n].choices :
             story.nodes[n].choices[j].nextNodeId \in {NULL} \cup DOMAIN story.nodes
        /\ \A n \in DOMAIN story.nodes \ {story.startNodeId} :
             /\ Cardinality(Incoming(story.nodes, n)) = 1
             /\ story.nodes[n].choices = <<>> => Count(n, story.endNodeIds) = 1

\* three nodes were generated, one of them an ending, and a choice is left
\* unresolved
C30_Witness ==
    /\ call.fn = "autoCompleteRejected"
    /\ Cardinality(DOMAIN story.nodes) = 3
    /\ story.endNodeIds # <<>>
    /\ \E n \in DOMAIN story.nodes : \E j \in DOMAIN story.nodes[n].choices :
         story.nodes[n].choices[j].nextNodeId = NULL

=============================================================================
